---- MODULE Spec2Model ----
(***************************************************************************)
(* A model of xsdata_rootfinder (src/xsdata_rootfinder/__init__.py): the   *)
(* import registry and module resolver, the file visitor, the root finder  *)
(* and the multi-file orchestrator with its thread pool.                   *)
(*                                                                         *)
(* Representation.  A Python str that may hold a dotted name is a sequence *)
(* of dot-free atoms ("pkg.file1" is <<"pkg", "file1">>), so that          *)
(* str.split(".") and ".".join(...) are computed and not assumed.  A Path   *)
(* is the sequence of its segments below the root ("/top/pkg/file1.py" is  *)
(* <<"top", "pkg", "file1.py">>).  None is the empty sequence.             *)
(***************************************************************************)
EXTENDS Integers, Sequences, FiniteSets, TLC

None == << >>

Min(a, b) == IF a < b THEN a ELSE b

Range(s) == {s[i] : i \in 1..Len(s)}

\* The sequences that enumerate the finite set S once each: the orders in
\* which iterating a Python set may yield its elements.
Iterations(S) == {s \in [1..Cardinality(S) -> S] : Range(s) = S}

(***************************************************************************)
(* Ordering of strings and paths, as Python compares them.                 *)
(***************************************************************************)

\* Every string the model compares with <, in Python's (code point) order.
StrOrder == <<"Alpha", "Beta", "Holder", "Widget", "__init__.py",
              "file1.py", "file2.py", "file3.py", "lib", "pkg", "top">>

Rank(s) == CHOOSE i \in 1..Len(StrOrder) : StrOrder[i] = s

StrLess(a, b) == Rank(a) < Rank(b)

\* list/tuple comparison: the first differing element decides, a proper
\* prefix is smaller.
SeqLess(p, q) ==
    \E i \in 1..(Min(Len(p), Len(q)) + 1) :
        /\ \A j \in 1..(i - 1) : p[j] = q[j]
        /\ \/ i > Len(p) /\ i <= Len(q)
           \/ i <= Len(p) /\ i <= Len(q) /\ StrLess(p[i], q[i])

(***************************************************************************)
(* Module strings and _ImportIdentifier                                    *)
(***************************************************************************)

RECURSIVE Flatten(_)
Flatten(levels) ==
    IF levels = << >> THEN << >> ELSE Head(levels) \o Flatten(Tail(levels))

\* ".".join(levels)
_create_module_from_levels(levels) == Flatten(levels)

\* module.split(".")
_decompose_module(module) == [i \in 1..Len(module) |-> <<module[i]>>]

_ImportIdentifier(value, attribute) == [value |-> value, attribute |-> attribute]

module(id) ==
    IF id.attribute = None THEN id.value ELSE id.attribute \o id.value

parts(id) == _decompose_module(module(id))

from_levels(levels) ==
    IF Len(levels) = 1
    THEN _ImportIdentifier(_create_module_from_levels(levels), None)
    ELSE _ImportIdentifier(levels[Len(levels)],
             _create_module_from_levels(SubSeq(levels, 1, Len(levels) - 1)))

(***************************************************************************)
(* Paths                                                                   *)
(***************************************************************************)

parent(p) == SubSeq(p, 1, Len(p) - 1)

\* Every dot-free name the model's files and imports are written with.
Atoms == {"top", "pkg", "lib", "file1", "file2", "file3", "__init__",
          "Widget", "Holder", "Alpha", "Beta",
          "dataclasses", "dataclass", "pydantic", "BaseModel", "attr", "s",
          "typing", "List", "Optional"}

\* the segment is a file name "<atom>.py"
HasPySuffix(seg) == \E a \in Atoms : seg = a \o ".py"

\* Path.with_suffix(".py"): the suffix of the last segment is replaced, or
\* added when it has none
with_suffix_py(p) ==
    IF HasPySuffix(p[Len(p)]) THEN p ELSE parent(p) \o <<p[Len(p)] \o ".py">>

with_name(p, name) == parent(p) \o <<name>>

(***************************************************************************)
(* State                                                                   *)
(***************************************************************************)

VARIABLES
    fs,             \* the files on disk: absolute path -> parsed content
    visits,         \* per path, what visit_and_consolidate_by_path can yield
    cache,          \* the lru_cache of _module_has_class: (path, name) -> bool
    call,           \* the arguments of the call in progress
    pc,             \* where the calling (orchestrating) thread is
    paths,          \* root_finders: `source` normalised into a list of paths
    done_paths,     \* root_finders: how many entries of `paths` were handled
    futures,        \* root_finders: the submitted tasks, in submission order
    refs,           \* the reference set handed to _root_finder
    defs,           \* the definition set handed to _root_finder
    cur,            \* the future as_completed yielded last (0: none yet)
    retry_counter,  \* root_finders: retry_counter of the retrieval loop
    attempts,       \* history: future.result calls made for `cur`
    raising,        \* the exception propagating out of the with-block
    outcome,        \* what the call returned or raised
    prev            \* history: the call made before this one and its outcome

vars == <<fs, visits, cache, call, pc, paths, done_paths, futures, refs, defs, cur, retry_counter,
          attempts, raising, outcome, prev>>

(***************************************************************************)
(* Syntax trees.  The parser (libcst) is external: a file's content is the *)
(* sequence of the nodes the visitor is called with, in traversal order.   *)
(***************************************************************************)

Name(v) == [t |-> "Name", value |-> v]
Attribute(value, attr) == [t |-> "Attribute", value |-> value, attr |-> Name(attr)]
Call(func) == [t |-> "Call", func |-> func]
Subscript(value, slice) == [t |-> "Subscript", value |-> value, slice |-> slice]
SimpleString(quote, body) == [t |-> "SimpleString", quote |-> quote, body |-> body]
NoNode == [t |-> "None"]

ImportAlias(name, asname) == [name |-> name, asname |-> asname]
Import(names) == [k |-> "Import", names |-> names]
ImportFrom(relative, mod, names) ==
    [k |-> "ImportFrom", relative |-> relative, module |-> mod, star |-> FALSE,
     names |-> names]
ImportStar(relative, mod) ==
    [k |-> "ImportFrom", relative |-> relative, module |-> mod, star |-> TRUE,
     names |-> << >>]
ClassDef(name, decorators, bases, start, end) ==
    [k |-> "ClassDef", name |-> name, decorators |-> decorators, bases |-> bases,
     start |-> start, end |-> end]
LeaveClassDef == [k |-> "leave_ClassDef"]
AnnAssign(annotation) == [k |-> "AnnAssign", annotation |-> annotation]
\* a file cst.parse_module cannot parse
SyntaxErrorFile == <<[k |-> "SyntaxError"]>>

Parses(content) == \A i \in 1..Len(content) : content[i].k # "SyntaxError"

\* the element of a one-element set: {f(x) : x \in {e}} evaluates e once,
\* however often f uses x
TheOnly(S) == CHOOSE x \in S : TRUE

Ok(v) == [exc |-> "none", val |-> v]
Raise(e) == [exc |-> e, val |-> None]

\* The class definitions _XSDataClassDefFinderVisitor meets: every ClassDef of
\* the tree, nested ones too; it stops at the first whose name matches.
ModuleHasClassUncached(path, name) ==
    IF path \notin DOMAIN fs THEN Ok(FALSE)
    ELSE IF ~Parses(fs[path]) THEN Raise("ParserSyntaxError")
    ELSE Ok(\E i \in 1..Len(fs[path]) :
                /\ fs[path][i].k = "ClassDef"
                /\ <<fs[path][i].name>> = name)

\* @lru_cache(maxsize=None): a value returned for the same arguments before,
\* in this process, is returned again without looking at the file
_module_has_class(path, name) ==
    IF <<path, name>> \in DOMAIN cache THEN Ok(cache[<<path, name>>])
    ELSE ModuleHasClassUncached(path, name)

\* the cache after the calls with the arguments `keys` have returned: an
\* entry is made on the first call and never replaced
Remember(c, keys) ==
    [k \in DOMAIN c \cup keys |->
        IF k \in DOMAIN c THEN c[k] ELSE ModuleHasClassUncached(k[1], k[2]).val]

\* Path(*self.parts): every part of a decomposed module is one atom
PathOfParts(ps) == [i \in 1..Len(ps) |-> ps[i][1]]

\* re.search(re.escape(pattern), str(py_file_path)): the index of the first
\* path segment the pattern occurs in, 0 when there is none.  No atom of the
\* model is a proper substring of another atom, so the pattern occurs in a
\* segment when it is the segment, or when the segment is "<pattern>.py".
SubPathMatch(pattern, py_file_path) ==
    LET hits == {i \in 1..Len(py_file_path) :
                    \/ py_file_path[i] = pattern
                    \/ py_file_path[i] = pattern \o ".py"}
    IN  IF hits = {} THEN 0 ELSE CHOOSE i \in hits : \A j \in hits : i <= j

\* the candidate paths of module_to_path for a module of two parts or more
ModuleCandidates(module_as_path, rest, py_file_path, sub_path_match) ==
    [same_dir_path |-> with_name(py_file_path, module_as_path[Len(module_as_path)]),
     deeper_path |-> parent(py_file_path) \o module_as_path,
     sub_path_match |-> sub_path_match,
     pred_path |-> with_suffix_py(parent(
                       SubSeq(py_file_path, 1, sub_path_match - 1)
                           \o <<module_as_path[1]>> \o rest))]

\* the first candidate, in the order the heuristics are tried, whose file
\* defines the class; an unparsable candidate raises
FirstWithClass(c, c1, c2, c3) ==
    IF c1.exc # "none" THEN Raise(c1.exc)
    ELSE IF c1.val THEN Ok(c.same_dir_path)
    ELSE IF c2.exc # "none" THEN Raise(c2.exc)
    ELSE IF c2.val THEN Ok(c.deeper_path)
    ELSE IF c.sub_path_match = 0 THEN Ok(None)
    ELSE IF c3.exc # "none" THEN Raise(c3.exc)
    ELSE IF c3.val THEN Ok(c.pred_path)
    ELSE Ok(None)

ResolveCandidates(c, value) ==
    FirstWithClass(c, _module_has_class(c.same_dir_path, value),
                      _module_has_class(c.deeper_path, value),
                      _module_has_class(c.pred_path, value))

CandidatesOf(module_as_path, rest, py_file_path) ==
    ModuleCandidates(module_as_path, rest, py_file_path,
                     SubPathMatch(module_as_path[1], py_file_path))

module_to_path(id, py_file_path) ==
    IF Len(parts(id)) < 2 THEN Raise("ValueError")  \* Path(".").with_suffix
    ELSE TheOnly({ResolveCandidates(c, id.value) :
             c \in {CandidatesOf(with_suffix_py(parent(PathOfParts(parts(id)))),
                                 Tail(PathOfParts(parts(id))), py_file_path)}})

\* the arguments of the calls of _module_has_class that returned while the
\* candidates were tried: what module_to_path leaves in the cache
KeysTried(c, value, c1, c2, c3) ==
    IF c1.exc # "none" THEN {}
    ELSE {<<c.same_dir_path, value>>} \cup
         (IF c1.val \/ c2.exc # "none" THEN {}
          ELSE {<<c.deeper_path, value>>} \cup
               (IF c2.val \/ c.sub_path_match = 0 \/ c3.exc # "none" THEN {}
                ELSE {<<c.pred_path, value>>}))

CandidateKeys(c, value) ==
    KeysTried(c, value, _module_has_class(c.same_dir_path, value),
                        _module_has_class(c.deeper_path, value),
                        _module_has_class(c.pred_path, value))

ModuleToPathKeys(id, py_file_path) ==
    IF Len(parts(id)) < 2 THEN {}
    ELSE TheOnly({CandidateKeys(c, id.value) :
             c \in {CandidatesOf(with_suffix_py(parent(PathOfParts(parts(id)))),
                                 Tail(PathOfParts(parts(id))), py_file_path)}})

(***************************************************************************)
(* _Imports: the import registry of one file                               *)
(***************************************************************************)

\* the longest prefix of the module's parts that is a registered alias
find_common_import(imports, id) ==
    LET module_parts == parts(id)
        hits == {idx \in 1..Len(module_parts) :
                    _create_module_from_levels(SubSeq(module_parts, 1, idx))
                        \in DOMAIN imports}
    IN  IF hits = {} THEN None
        ELSE LET idx == CHOOSE i \in hits : \A j \in hits : j <= i
             IN  _create_module_from_levels(SubSeq(module_parts, 1, idx))

\* an alias that is registered keeps the import it was first registered for
AddImportKeepFirst(imports, alias, id) ==
    [a \in DOMAIN imports \cup {alias} |-> IF a \in DOMAIN imports THEN imports[a] ELSE id]

add_import(imports, alias, id) ==
    [a \in DOMAIN imports \cup {alias} |-> IF a = alias THEN id ELSE imports[a]]

\* a Name or a chain of Attributes over a Name
RECURSIVE IsModuleNode(_)
IsModuleNode(node) ==
    \/ node.t = "Name"
    \/ node.t = "Attribute" /\ IsModuleNode(node.value)

RECURSIVE ModuleLevels(_)
ModuleLevels(node) ==
    IF node.t = "Name" THEN << <<node.value>> >>
    ELSE ModuleLevels(node.value) \o ModuleLevels(node.attr)

\* any other node has no .attr: AttributeError
_parse_imported_module(node) ==
    IF IsModuleNode(node) THEN Ok(from_levels(ModuleLevels(node)))
    ELSE Raise("AttributeError")

\* <<alias, module>>
_parse_import_alias(import_alias) ==
    LET alias == IF import_alias.asname.t # "None" THEN import_alias.asname
                 ELSE import_alias.name
        a == _parse_imported_module(alias)
        m == _parse_imported_module(import_alias.name)
    IN  IF a.exc # "none" THEN Raise(a.exc)
        ELSE IF m.exc # "none" THEN Raise(m.exc)
        ELSE Ok([alias |-> module(a.val), module |-> m.val])

(***************************************************************************)
(* Convention classifier                                                   *)
(***************************************************************************)

XsdModels == {"dataclass", "pydantic", "attrs"}

model_module(xsd_models) ==
    CASE xsd_models = "dataclass" -> <<"dataclasses", "dataclass">>
      [] xsd_models = "pydantic"  -> <<"pydantic", "BaseModel">>
      [] xsd_models = "attrs"     -> <<"attr", "s">>

\* re.sub("\\.<name>$", "", model): the model module without its trailing
\* ".<name>"
StripTrailing(model, name) ==
    IF /\ Len(name) < Len(model)
       /\ SubSeq(model, Len(model) - Len(name) + 1, Len(model)) = name
    THEN SubSeq(model, 1, Len(model) - Len(name))
    ELSE model

\* only a registered alias counts, wildcard imports are not looked at
IsModelImportByAlias(imports, import_stars, xsd_models, m, found_module) ==
    /\ found_module # None
    /\ module(imports[found_module]) = model_module(xsd_models)

\* _AbstractModelCheck._parse_imported_module on a parsed expression
IsModelImport(imports, import_stars, xsd_models, m, found_module) ==
    \/ /\ found_module # None
       /\ module(imports[found_module]) = model_module(xsd_models)
    \/ /\ import_stars # {}
       /\ StripTrailing(model_module(xsd_models), module(m)) \in import_stars

ModelCheckParsed(imports, import_stars, xsd_models, m) ==
    IF m.exc # "none" THEN Raise(m.exc)
    ELSE Ok(IsModelImport(imports, import_stars, xsd_models, m.val,
                          find_common_import(imports, m.val)))

ModelCheckExpression(imports, import_stars, xsd_models, expression) ==
    ModelCheckParsed(imports, import_stars, xsd_models,
                     _parse_imported_module(expression))

\* any(...) over the results in order: the first that is True or an
\* exception decides; False when there is none
FirstDecisive(results) ==
    IF \A i \in 1..Len(results) : results[i].exc = "none" /\ ~results[i].val
    THEN Ok(FALSE)
    ELSE results[CHOOSE i \in 1..Len(results) :
                    /\ results[i].exc # "none" \/ results[i].val
                    /\ \A j \in 1..(i - 1) :
                           results[j].exc = "none" /\ ~results[j].val]

\* any(check(e) for e in expressions): left to right, stopping at the first
\* True; an exception met before it propagates
AnyModelCheck(imports, import_stars, xsd_models, expressions) ==
    FirstDecisive([i \in 1..Len(expressions) |->
        ModelCheckExpression(imports, import_stars, xsd_models, expressions[i])])

run_model_check(imports, import_stars, xsd_models, node) ==
    AnyModelCheck(imports, import_stars, xsd_models,
                  IF xsd_models = "pydantic" THEN node.bases ELSE node.decorators)

(***************************************************************************)
(* _XSDataRootFinderVisitor                                                *)
(***************************************************************************)

RootModel(path, name, start_line_no, end_line_no) ==
    [path |-> path, name |-> name, start_line_no |-> start_line_no,
     end_line_no |-> end_line_no]

_ReferencedClass(path, name) == [path |-> path, name |-> name]

\* the key without the defining file
ReferencedClassByName(root_model) == _ReferencedClass(None, root_model.name)

\* RootModel._referenced_class
_referenced_class(root_model) == _ReferencedClass(root_model.path, root_model.name)

\* The top-level packages importlib can import in the analysing interpreter.
ImportablePackages == {"pydantic"}

\* importlib.util.find_spec(name).origin is a file path, "built-in" or
\* "frozen", never "stdlib": the result is False whenever find_spec returns.
\* For a dotted name find_spec imports the parent and raises
\* ModuleNotFoundError when it is not an importable package.
_is_from_standard_library(name) ==
    IF Len(name) > 1 /\ name[1] \notin ImportablePackages
    THEN Raise("ModuleNotFoundError")
    ELSE Ok(FALSE)

\* cache_keys: the arguments _module_has_class returned for during the
\* visit; exc: the exception that ended the visit
_XSDataRootFinderVisitor(xsd_models, path) ==
    [xsd_models |-> xsd_models, path |-> path,
     imports |-> << >>, import_stars |-> {},
     class_trace |-> << >>, ref_classes |-> {}, defined_classes |-> {},
     cache_keys |-> {}, exc |-> "none"]

Fail(v, e) == [v EXCEPT !.exc = e]

\* one star import tried by _get_local_import: the module it would provide
\* the identifier from, and where that module resolves to
StarCandidate(star_module, py_source_path) ==
    [star_module |-> star_module,
     star_path |-> module_to_path(star_module, py_source_path)]

\* the first star import whose module resolves, or that raises
FirstStar(tried) ==
    IF \A i \in 1..Len(tried) :
           tried[i].star_path.exc = "none" /\ tried[i].star_path.val = None
    THEN Ok(None)
    ELSE LET first == tried[CHOOSE i \in 1..Len(tried) :
                 /\ tried[i].star_path.exc # "none" \/ tried[i].star_path.val # None
                 /\ \A j \in 1..(i - 1) :
                        /\ tried[j].star_path.exc = "none"
                        /\ tried[j].star_path.val = None]
         IN  IF first.star_path.exc # "none" THEN Raise(first.star_path.exc)
             ELSE Ok(_ReferencedClass(first.star_path.val, first.star_module.value))

\* for star in self.imports.import_stars, in the iteration order `stars`
StarImport(stars, identifier, py_source_path) ==
    FirstStar([i \in 1..Len(stars) |->
        StarCandidate(from_levels(_decompose_module(stars[i]) \o parts(identifier)),
                      py_source_path)])

\* the registered import when it resolves to a file, the star imports
\* otherwise
ImportedOrStar(v, identifier, found_module, path_from_module, hash) ==
    IF path_from_module.exc # "none" THEN Raise(path_from_module.exc)
    ELSE IF path_from_module.val # None
    THEN Ok(_ReferencedClass(path_from_module.val, v.imports[found_module].value))
    ELSE StarImport(SelectSeq(hash, LAMBDA x : x \in v.import_stars),
                    identifier, v.path)

LocalImport(v, identifier, found_module, hash) ==
    TheOnly({ImportedOrStar(v, identifier, found_module, path_from_module, hash) :
        path_from_module \in
            {IF found_module = None THEN Ok(None)
             ELSE module_to_path(v.imports[found_module], v.path)}})

LocalImportOf(v, identifier, hash) ==
    TheOnly({LocalImport(v, identifier, found_module, hash) :
        found_module \in {find_common_import(v.imports, identifier)}})

\* `hash` enumerates the star modules in the order the set yields them
_get_local_import(v, name, hash) ==
    LocalImportOf(v, from_levels(_decompose_module(name)), hash)

\* the star imports _get_local_import tries: each up to the first whose
\* module resolves, or that raises
StarKeys(tried) ==
    UNION {tried[i].keys :
             i \in {k \in 1..Len(tried) :
                       \A j \in 1..(k - 1) : /\ tried[j].star_path.exc = "none"
                                             /\ tried[j].star_path.val = None}}

StarKeysOf(stars, identifier, py_source_path) ==
    StarKeys([i \in 1..Len(stars) |->
        [star_path |-> module_to_path(
                           from_levels(_decompose_module(stars[i]) \o parts(identifier)),
                           py_source_path),
         keys |-> ModuleToPathKeys(
                      from_levels(_decompose_module(stars[i]) \o parts(identifier)),
                      py_source_path)]])

ImportedOrStarKeys(v, identifier, found_module, path_from_module, hash) ==
    (IF found_module = None THEN {}
     ELSE ModuleToPathKeys(v.imports[found_module], v.path))
    \cup
    (IF path_from_module.exc # "none" \/ path_from_module.val # None THEN {}
     ELSE StarKeysOf(SelectSeq(hash, LAMBDA x : x \in v.import_stars),
                     identifier, v.path))

LocalImportKeys(v, identifier, found_module, hash) ==
    TheOnly({ImportedOrStarKeys(v, identifier, found_module, path_from_module, hash) :
        path_from_module \in
            {IF found_module = None THEN Ok(None)
             ELSE module_to_path(v.imports[found_module], v.path)}})

\* what _get_local_import(name) leaves in the cache of _module_has_class
GetLocalImportKeys(v, name, hash) ==
    TheOnly({LocalImportKeys(v, identifier,
                             find_common_import(v.imports, identifier), hash) :
        identifier \in {from_levels(_decompose_module(name))}})

\* the reference is always keyed by the visited file
AddRefInModule(v, in_module_ref, std, local) ==
    IF std.exc # "none" THEN Fail(v, std.exc)
    ELSE IF std.val THEN v
    ELSE IF local.exc # "none" THEN Fail(v, local.exc)
    ELSE [v EXCEPT !.ref_classes = @ \cup {in_module_ref}]

\* self.ref_classes.add(ref_class), unless the name is of the standard
\* library or a step raised
AddRef(v, in_module_ref, std, local) ==
    IF std.exc # "none" THEN Fail(v, std.exc)
    ELSE IF std.val THEN v
    ELSE IF local.exc # "none" THEN Fail(v, local.exc)
    ELSE [v EXCEPT !.ref_classes =
             @ \cup {IF local.val = None THEN in_module_ref ELSE local.val}]

\* _get_local_import is called when the name is not of the standard
\* library and the source is a file
Looked(v, std, keys) ==
    IF v.path = None \/ std.exc # "none" \/ std.val THEN v
    ELSE [v EXCEPT !.cache_keys = @ \cup keys]

_add_class_to_refs(v, name, hash) ==
    TheOnly({AddRef(Looked(v, _is_from_standard_library(name),
                           GetLocalImportKeys(v, name, hash)),
                    _ReferencedClass(v.path, name),
                    _is_from_standard_library(name), local) :
        local \in {IF v.path = None THEN Ok(_ReferencedClass(v.path, name))
                   ELSE _get_local_import(v, name, hash)}})

\* _add_class_to_refs for each name in turn, up to the first exception
RECURSIVE AddClassesToRefs(_, _, _)
AddClassesToRefs(v, names, hash) ==
    IF names = << >> \/ v.exc # "none" THEN v
    ELSE TheOnly({AddClassesToRefs(added, Tail(names), hash) :
                     added \in {_add_class_to_refs(v, Head(names), hash)}})

\* node.value.strip('"'): only double quotes are stripped
StripQuotes(node) ==
    IF node.quote = "\"" THEN node.body
    ELSE IF Len(node.body) = 1 THEN <<node.quote \o node.body[1] \o node.quote>>
    ELSE <<node.quote \o Head(node.body)>>
         \o SubSeq(node.body, 2, Len(node.body) - 1)
         \o <<node.body[Len(node.body)] \o node.quote>>

\* the names find_all_types_in_subscript passes to _add_class_to_refs, in
\* order: of each slice element, recursively
RECURSIVE SubscriptNames(_)
SubscriptNames(slice) ==
    IF slice = << >> THEN << >>
    ELSE LET slice_index_value == Head(slice)
             here == CASE slice_index_value.t = "Subscript" ->
                              SubscriptNames(slice_index_value.slice)
                       [] slice_index_value.t = "Attribute" ->
                              << <<slice_index_value.attr.value>> >>
                       [] slice_index_value.t = "Name" ->
                              << <<slice_index_value.value>> >>
                       [] slice_index_value.t = "SimpleString" ->
                              << StripQuotes(slice_index_value) >>
                       [] OTHER -> << >>
         IN  here \o SubscriptNames(Tail(slice))

\* the names visit_AnnAssign hands to _add_class_to_refs for an annotation
AnnotationNames(annotation_node) ==
    CASE annotation_node.t = "Subscript" -> SubscriptNames(annotation_node.slice)
      [] annotation_node.t = "Name" -> << <<annotation_node.value>> >>
      [] annotation_node.t = "Attribute" -> << <<annotation_node.attr.value>> >>
      [] annotation_node.t = "SimpleString" -> << StripQuotes(annotation_node) >>
      [] OTHER -> << >>

\* the convention is asked of the outermost open class
IsRelevantModelOutermost(v) ==
    IF v.xsd_models \notin XsdModels THEN Raise("ValueError")
    ELSE run_model_check(v.imports, v.import_stars, v.xsd_models,
                         v.class_trace[Len(v.class_trace)])

_is_relevant_model(v) ==
    IF v.xsd_models \notin XsdModels THEN Raise("ValueError")
    ELSE run_model_check(v.imports, v.import_stars, v.xsd_models, Head(v.class_trace))

AnnAssignIn(v, node, relevant, hash) ==
    IF relevant.exc # "none" THEN Fail(v, relevant.exc)
    ELSE IF ~relevant.val THEN v
    ELSE AddClassesToRefs(v, AnnotationNames(node.annotation), hash)

visit_AnnAssign(v, node, hash) ==
    IF v.class_trace = << >> THEN v
    ELSE TheOnly({AnnAssignIn(v, node, relevant, hash) :
                     relevant \in {_is_relevant_model(v)}})

\* for base_class in node.bases, up to the first exception
RECURSIVE _get_inherited_local_classes(_, _, _)
_get_inherited_local_classes(v, bases, hash) ==
    IF bases = << >> \/ v.exc # "none" THEN v
    ELSE LET identifier == _parse_imported_module(Head(bases))
         IN  IF identifier.exc # "none" THEN Fail(v, identifier.exc)
             ELSE TheOnly({_get_inherited_local_classes(added, Tail(bases), hash) :
                     added \in {_add_class_to_refs(v, module(identifier.val), hash)}})

\* self.class_trace.appendleft(node), unless the visit raised before
AppendLeft(v, node) ==
    IF v.exc # "none" THEN v
    ELSE [v EXCEPT !.class_trace = <<node>> \o @]

\* the base classes of a top-level class are not registered as references
visit_ClassDefWithoutBases(v, node, hash) ==
    AppendLeft(IF v.class_trace # << >> THEN v
               ELSE [v EXCEPT !.defined_classes = @ \cup
                        {RootModel(v.path, <<node.name>>, node.start, node.end)}],
               node)

\* a RootModel is recorded for a class at any depth
visit_ClassDefAtAnyDepth(v, node, hash) ==
    TheOnly({AppendLeft(top, node) :
        top \in {_get_inherited_local_classes(
                     [v EXCEPT !.defined_classes = @ \cup
                         {RootModel(v.path, <<node.name>>, node.start, node.end)}],
                     node.bases, hash)}})

visit_ClassDef(v, node, hash) ==
    TheOnly({AppendLeft(top, node) :
        top \in {IF v.class_trace # << >> THEN v
                 ELSE _get_inherited_local_classes(
                          [v EXCEPT !.defined_classes = @ \cup
                              {RootModel(v.path, <<node.name>>, node.start, node.end)}],
                          node.bases, hash)}})

leave_ClassDef(v) == [v EXCEPT !.class_trace = Tail(@)]

\* for import_alias in node.names: add_import, up to the first exception
RECURSIVE visit_Import(_, _)
visit_Import(v, names) ==
    IF names = << >> \/ v.exc # "none" THEN v
    ELSE LET a == _parse_import_alias(Head(names))
         IN  IF a.exc # "none" THEN Fail(v, a.exc)
             ELSE visit_Import(
                      [v EXCEPT !.imports = add_import(@, a.val.alias, a.val.module)],
                      Tail(names))

\* the str of a path segment: a file name "<atom>.py" holds a dot
SegmentStr(seg) ==
    IF HasPySuffix(seg) THEN <<CHOOSE a \in Atoms : seg = a \o ".py", "py">>
    ELSE <<seg>>

\* self.path.parts[index]: parts[0] is the root "/", a negative index counts
\* from the end
PathPart(path, index) ==
    LET n == Len(path) + 1
        k == IF index < 0 THEN n + index ELSE index
    IN  IF k < 0 THEN Raise("IndexError")
        ELSE IF k = 0 THEN Ok(<<"/">>)
        ELSE Ok(SegmentStr(path[k]))

\* the module an import-from statement names
ImportFromModule(v, node) ==
    IF node.relative > 0 /\ v.path # None
    THEN LET start_index == (Len(v.path) + 1) - node.relative - 1
             part == PathPart(v.path, start_index)
             base == _ImportIdentifier(part.val, None)
             non_relative_module == _parse_imported_module(node.module)
         IN  IF part.exc # "none" THEN Raise(part.exc)
             ELSE IF node.module.t = "None" THEN Ok(base)
             ELSE IF non_relative_module.exc # "none"
             THEN Raise(non_relative_module.exc)
             ELSE Ok(from_levels(parts(base) \o parts(non_relative_module.val)))
    ELSE _parse_imported_module(node.module)

\* for import_alias in node.names: add_import of the combined module
RECURSIVE AddFromImports(_, _, _)
AddFromImports(v, mod, names) ==
    IF names = << >> \/ v.exc # "none" THEN v
    ELSE LET a == _parse_import_alias(Head(names))
         IN  IF a.exc # "none" THEN Fail(v, a.exc)
             ELSE AddFromImports(
                      [v EXCEPT !.imports = add_import(@, a.val.alias,
                            from_levels(parts(mod) \o parts(a.val.module)))],
                      mod, Tail(names))

visit_ImportFrom(v, node) ==
    LET mod == ImportFromModule(v, node)
    IN  IF mod.exc # "none" THEN Fail(v, mod.exc)
        ELSE IF node.star
        THEN [v EXCEPT !.import_stars = @ \cup {module(mod.val)}]  \* add_import_star
        ELSE AddFromImports(v, mod.val, node.names)

\* one call of the visitor by the tree traversal
VisitNode(v, node, hash) ==
    CASE node.k = "Import" -> visit_Import(v, node.names)
      [] node.k = "ImportFrom" -> visit_ImportFrom(v, node)
      [] node.k = "ClassDef" -> visit_ClassDef(v, node, hash)
      [] node.k = "leave_ClassDef" -> leave_ClassDef(v)
      [] node.k = "AnnAssign" -> visit_AnnAssign(v, node, hash)

\* the nodes one after the other, up to the first exception
RECURSIVE VisitEach(_, _, _)
VisitEach(v, content, hash) ==
    IF content = << >> \/ v.exc # "none" THEN v
    ELSE TheOnly({VisitEach(visited, Tail(content), hash) :
                     visited \in {VisitNode(v, Head(content), hash)}})

\* the import statements of the file are registered before anything else is
\* visited
VisitAllImportsFirst(v, content, hash) ==
    VisitEach(v, SelectSeq(content, LAMBDA n : n.k \in {"Import", "ImportFrom"})
                 \o SelectSeq(content, LAMBDA n : n.k \notin {"Import", "ImportFrom"}),
              hash)

\* python_module.visit(visitor): the traversal ends at the first exception
RECURSIVE VisitAll(_, _, _)
VisitAll(v, content, hash) ==
    IF content = << >> \/ v.exc # "none" THEN v
    ELSE TheOnly({VisitAll(visited, Tail(content), hash) :
                     visited \in {VisitNode(v, Head(content), hash)}})

(***************************************************************************)
(* Sources.  A source argument is a path or literal code text; code text   *)
(* is given by the content it parses to and is no valid file path.         *)
(***************************************************************************)

PathSource(path) ==
    [kind |-> "path", path |-> path, content |-> << >>, paths |-> << >>]
CodeSource(content) ==
    [kind |-> "code", path |-> None, content |-> content, paths |-> << >>]
\* root_finders: an explicit collection of file paths
Collection(seq) ==
    [kind |-> "collection", path |-> None, content |-> << >>, paths |-> seq]

is_file(source) == source.kind = "path" /\ source.path \in DOMAIN fs

_read_python_file(source) ==
    IF is_file(source) THEN Ok(fs[source.path])
    ELSE IF source.kind = "code" THEN Ok(source.content)  \* ValidationError
    ELSE Raise("FileNotFoundError")

_python_source_visit(source, xsd_models, hash) ==
    LET source_path == IF ~is_file(source) THEN None ELSE source.path
        text == _read_python_file(source)
        visitor == _XSDataRootFinderVisitor(xsd_models, source_path)
    IN  IF text.exc # "none" THEN Fail(visitor, text.exc)
        ELSE IF ~Parses(text.val) THEN Fail(visitor, "ParserSyntaxError")
        ELSE VisitAll(visitor, text.val, hash)

\* the modules a file brings in with "import *": what its import_stars can
\* hold, and so what an iteration order of that set ranges over
RECURSIVE StarModules(_, _)
StarModules(path, content) ==
    IF content = << >> THEN {}
    ELSE LET node == Head(content)
             mod == ImportFromModule(_XSDataRootFinderVisitor("dataclass", path), node)
         IN  (IF node.k = "ImportFrom" /\ node.star /\ mod.exc = "none"
              THEN {module(mod.val)} ELSE {})
             \cup StarModules(path, Tail(content))

SourceStars(source) ==
    IF is_file(source) THEN StarModules(source.path, fs[source.path])
    ELSE IF source.kind = "code" THEN StarModules(None, source.content)
    ELSE {}

(***************************************************************************)
(* Root Finder                                                             *)
(***************************************************************************)

\* (x.path, x.name) < (y.path, y.name)
KeyLess(x, y) ==
    \/ SeqLess(x.path, y.path)
    \/ x.path = y.path /\ SeqLess(x.name, y.name)

\* no sorting: the element goes to the end
InsertLast(sorted, x) == Append(sorted, x)

\* list.sort is stable: an element goes after the elements sorted so far
\* whose key is not greater
InsertSorted(sorted, x) ==
    LET after == {i \in 1..Len(sorted) : KeyLess(x, sorted[i])}
        at == IF after = {} THEN Len(sorted) + 1
              ELSE CHOOSE i \in after : \A j \in after : i <= j
    IN  SubSeq(sorted, 1, at - 1) \o <<x>> \o SubSeq(sorted, at, Len(sorted))

RECURSIVE SortByKey(_, _)
SortByKey(sorted, rest) ==
    IF rest = << >> THEN sorted
    ELSE TheOnly({SortByKey(inserted, Tail(rest)) :
                     inserted \in {InsertSorted(sorted, Head(rest))}})

NoRoots == [kind |-> "None", list |-> << >>]
Roots(list) == [kind |-> "list", list |-> list]

\* the list returned as it is, empty or not
RootsAlways(root_classes) == Roots(root_classes)

\* the value returned for the sorted list of roots
RootsOrNone(root_classes) ==
    IF root_classes = << >> THEN NoRoots ELSE Roots(root_classes)

\* `defs_iter` is the set defs in the order it yields its elements
_root_finder(defs_iter, refs_set) ==
    LET root_classes == SelectSeq(defs_iter,
                            LAMBDA root_model : _referenced_class(root_model) \notin refs_set)
    IN  RootsOrNone(SortByKey(<< >>, root_classes))

(***************************************************************************)
(* The files of the model                                                  *)
(***************************************************************************)

F1 == <<"top", "pkg", "file1.py">>
F2 == <<"top", "pkg", "file2.py">>
F3 == <<"top", "lib", "file3.py">>
FInit == <<"top", "pkg", "__init__.py">>
FMissing == <<"top", "lib", "file1.py">>     \* never on disk

Dataclass == <<Name("dataclass")>>
ImportDataclass ==
    ImportFrom(0, Name("dataclasses"), <<ImportAlias(Name("dataclass"), NoNode)>>)
ImportWidget(relative, mod) ==
    ImportFrom(relative, mod, <<ImportAlias(Name("Widget"), NoNode)>>)

\* Widget, then Alpha: two unreferenced models, defined out of name order
WidgetFile ==
    <<ImportDataclass,
      ClassDef("Widget", Dataclass, << >>, 3, 5), AnnAssign(Name("str")), LeaveClassDef,
      ClassDef("Alpha", Dataclass, << >>, 7, 9), LeaveClassDef>>

\* Widget, and Alpha defined twice (the second definition rebinds the name)
TwiceFile ==
    <<ImportDataclass,
      ClassDef("Widget", Dataclass, << >>, 3, 4), LeaveClassDef,
      ClassDef("Alpha", Dataclass, << >>, 6, 7), LeaveClassDef,
      ClassDef("Alpha", Dataclass, << >>, 9, 10), LeaveClassDef>>

\* from file1 import Widget; Holder has a field of type Widget
HolderFile(import) ==
    <<ImportDataclass, import,
      ClassDef("Holder", Dataclass, << >>, 5, 8), AnnAssign(Name("Widget")),
      LeaveClassDef>>

\* from .file1 import *; Holder has a field of type List[Widget]
StarHolderFile ==
    <<ImportDataclass, ImportStar(1, Name("file1")),
      ClassDef("Holder", Dataclass, << >>, 5, 8),
      AnnAssign(Subscript(Name("List"), <<Name("Widget")>>)), LeaveClassDef>>

\* a second file that defines a class Widget, and Beta(Widget)
OtherWidgetFile ==
    <<ImportDataclass,
      ClassDef("Widget", Dataclass, << >>, 3, 4), LeaveClassDef,
      ClassDef("Beta", Dataclass, <<Name("Widget")>>, 6, 7), LeaveClassDef>>

\* two wildcard imports that both bring a Widget
TwoStarsFile ==
    <<ImportDataclass,
      ImportStar(0, Attribute(Attribute(Name("top"), "pkg"), "file1")),
      ImportStar(0, Attribute(Attribute(Name("top"), "pkg"), "file2")),
      ClassDef("Holder", Dataclass, << >>, 6, 9), AnnAssign(Name("Widget")),
      LeaveClassDef>>

InitFile == <<ClassDef("Beta", << >>, << >>, 1, 2), LeaveClassDef>>

\* a model that refers to itself by a forward reference: next: "Alpha"
SelfFile ==
    <<ImportDataclass,
      ClassDef("Alpha", Dataclass, << >>, 3, 5),
      AnnAssign(SimpleString("\"", <<"Alpha">>)), LeaveClassDef>>

\* the unqualified name a class carries when it follows the convention: the
\* decorator dataclass or s, or the base class BaseModel
Marker(xsd_models) ==
    CASE xsd_models = "dataclass" -> Name("dataclass")
      [] xsd_models = "pydantic"  -> Name("BaseModel")
      [] xsd_models = "attrs"     -> Name("s")

\* the module the marker is imported from
MarkerOrigin(xsd_models) ==
    CASE xsd_models = "dataclass" -> Name("dataclasses")
      [] xsd_models = "pydantic"  -> Name("pydantic")
      [] xsd_models = "attrs"     -> Name("attr")

\* from dataclasses import dataclass, and its likes
ExplicitImport(xsd_models) ==
    ImportFrom(0, MarkerOrigin(xsd_models), <<ImportAlias(Marker(xsd_models), NoNode)>>)

\* a class that follows the convention
ModelDef(xsd_models, name, start, end) ==
    ClassDef(name,
             IF xsd_models = "pydantic" THEN << >> ELSE <<Marker(xsd_models)>>,
             IF xsd_models = "pydantic" THEN <<Marker(xsd_models)>> ELSE << >>,
             start, end)

\* Holder with a field whose type is Widget, written as `annotation`, then
\* Widget; the marker comes in by the statement `import`
PairFile(import, xsd_models, annotation) ==
    <<import,
      ModelDef(xsd_models, "Holder", 3, 5), AnnAssign(annotation), LeaveClassDef,
      ModelDef(xsd_models, "Widget", 7, 9), AnnAssign(Name("str")), LeaveClassDef>>

\* import dataclasses / import attr, and the decorator written
\* @dataclasses.dataclass / @attr.s on Holder, which has a field of type
\* Widget, and on Widget
QualifiedMarkerFile(xsd_models) ==
    LET decorators ==
            <<Attribute(MarkerOrigin(xsd_models), Marker(xsd_models).value)>>
    IN  <<Import(<<ImportAlias(MarkerOrigin(xsd_models), NoNode)>>),
          ClassDef("Holder", decorators, << >>, 3, 5), AnnAssign(Name("Widget")),
          LeaveClassDef,
          ClassDef("Widget", decorators, << >>, 7, 9), AnnAssign(Name("str")),
          LeaveClassDef>>

\* one model, Alpha, with a field of a builtin type
SingleFile ==
    <<ImportDataclass,
      ClassDef("Alpha", Dataclass, << >>, 3, 5), AnnAssign(Name("str")), LeaveClassDef>>

\* one model, Alpha, and a class Beta that does not follow the convention
SingleAndPlainFile ==
    <<ImportDataclass,
      ClassDef("Alpha", Dataclass, << >>, 3, 5), AnnAssign(Name("str")), LeaveClassDef,
      ClassDef("Beta", << >>, << >>, 7, 8), LeaveClassDef>>

\* an import and no class
NoClassFile == <<ImportDataclass>>

\* from .file1 import *; Widget defined here too, and Beta(Widget)
ShadowFile ==
    <<ImportDataclass, ImportStar(1, Name("file1")),
      ClassDef("Widget", Dataclass, << >>, 4, 5), LeaveClassDef,
      ClassDef("Beta", Dataclass, <<Name("Widget")>>, 7, 8), LeaveClassDef>>

\* classes inside classes: Holder (a model) holds Alpha (no model), which holds
\* Widget (a model); fields in each of them, and an annotation at module level
NestedFile ==
    <<ImportDataclass,
      ClassDef("Holder", Dataclass, << >>, 3, 12),
          AnnAssign(Name("Widget")),
          ClassDef("Alpha", << >>, << >>, 5, 10),
              AnnAssign(Name("Beta")),
              ClassDef("Widget", Dataclass, << >>, 8, 10),
                  AnnAssign(Name("Alpha")),
              LeaveClassDef,
          LeaveClassDef,
          AnnAssign(Name("str")),
      LeaveClassDef,
      AnnAssign(Name("Holder")),
      ClassDef("Beta", << >>, << >>, 15, 16), LeaveClassDef>>

Disk(c1, c2, c3) ==
    [p \in {F1, F2, F3, FInit} |->
        IF p = F1 THEN c1 ELSE IF p = F2 THEN c2 ELSE IF p = F3 THEN c3 ELSE InitFile]

FileSystems ==
    { Disk(WidgetFile, HolderFile(ImportWidget(0, Name("file1"))),
           HolderFile(ImportWidget(0, Attribute(Name("pkg"), "file1")))),
      Disk(WidgetFile, StarHolderFile,
           HolderFile(ImportWidget(0,
               Attribute(Attribute(Name("top"), "pkg"), "file1")))),
      Disk(TwiceFile, OtherWidgetFile, TwoStarsFile),
      Disk(SyntaxErrorFile, OtherWidgetFile,
           HolderFile(ImportWidget(2, Attribute(Name("pkg"), "file2")))),
      Disk(WidgetFile, ShadowFile,
           PairFile(ImportDataclass, "dataclass", SimpleString("'", <<"Widget">>))) }

(***************************************************************************)
(* Calls                                                                   *)
(***************************************************************************)

\* the longest explicit collection of files a call of the model is given
MaxFiles == 2

\* max_workers = 0 and timeout = 0 stand for None: the default pool size
\* (min(32, cpu + 4), above any batch of the model) and no timeout
MultiprocessingSettings(enabled, max_workers, timeout) ==
    [enabled |-> enabled, max_workers |-> max_workers, timeout |-> timeout]

Settings == { MultiprocessingSettings(FALSE, 0, 0),
              MultiprocessingSettings(TRUE, 0, 0),
              MultiprocessingSettings(TRUE, 1, 5) }

\* import file1; Holder has a field of type file1.Widget
QualifiedFieldFile ==
    <<ImportDataclass, Import(<<ImportAlias(Name("file1"), NoNode)>>),
      ClassDef("Holder", Dataclass, << >>, 5, 7),
      AnnAssign(Attribute(Name("file1"), "Widget")), LeaveClassDef>>

\* import file1; class Beta(file1.Widget)
QualifiedBaseFile ==
    <<ImportDataclass, Import(<<ImportAlias(Name("file1"), NoNode)>>),
      ClassDef("Beta", Dataclass, <<Attribute(Name("file1"), "Widget")>>, 5, 6),
      LeaveClassDef>>

\* from top.pkg.file1 import <name> as W
ImportAsW(name) ==
    ImportFrom(0, Attribute(Attribute(Name("top"), "pkg"), "file1"),
               <<ImportAlias(Name(name), Name("W"))>>)

\* Widget is imported as W; Holder has a field of type W
AliasFile ==
    <<ImportDataclass, ImportAsW("Widget"),
      ClassDef("Holder", Dataclass, << >>, 5, 7), AnnAssign(Name("W")),
      LeaveClassDef>>

\* Widget is imported as W and Holder has a field of type W; then Alpha is
\* imported as W and Beta has a field of type W
TwiceAliasFile ==
    <<ImportDataclass, ImportAsW("Widget"),
      ClassDef("Holder", Dataclass, << >>, 5, 7), AnnAssign(Name("W")),
      LeaveClassDef,
      ImportAsW("Alpha"),
      ClassDef("Beta", Dataclass, << >>, 11, 13), AnnAssign(Name("W")),
      LeaveClassDef>>

\* Holder has a field of type Widget; from .file1 import Widget comes last
LateImportFile ==
    <<ImportDataclass,
      ClassDef("Holder", Dataclass, << >>, 4, 6), AnnAssign(Name("Widget")),
      LeaveClassDef,
      ImportWidget(1, Name("file1"))>>

\* Holder and Beta have a field of type Widget; from top.pkg.file1 import
\* Widget stands between the two classes
BeforeAndAfterFile ==
    <<ImportDataclass,
      ClassDef("Holder", Dataclass, << >>, 4, 6), AnnAssign(Name("Widget")),
      LeaveClassDef,
      ImportWidget(0, Attribute(Attribute(Name("top"), "pkg"), "file1")),
      ClassDef("Beta", Dataclass, << >>, 10, 12), AnnAssign(Name("Widget")),
      LeaveClassDef>>

\* import datetime; Holder has a field of type datetime.datetime
ModuleNameFieldFile ==
    <<ImportDataclass, Import(<<ImportAlias(Name("datetime"), NoNode)>>),
      ClassDef("Holder", Dataclass, << >>, 5, 7),
      AnnAssign(Attribute(Name("datetime"), "datetime")), LeaveClassDef>>

\* class Beta(missing.Widget), and no import of missing
DottedBaseFile ==
    <<ImportDataclass,
      ClassDef("Beta", Dataclass, <<Attribute(Name("missing"), "Widget")>>, 4, 5),
      LeaveClassDef>>

\* the disks with the files that write qualified names, aliases and late
\* imports; file1.py holds Widget and Alpha on each of them
ResolutionFileSystems ==
    { Disk(WidgetFile, QualifiedFieldFile, AliasFile),
      Disk(WidgetFile, QualifiedBaseFile, TwiceAliasFile),
      Disk(WidgetFile, LateImportFile, BeforeAndAfterFile),
      Disk(WidgetFile, ModuleNameFieldFile, DottedBaseFile) }

Files == {F1, F2, F3, FInit, FMissing}

Collections ==
    UNION { {q \in [1..n -> Files] : \A i, j \in 1..n : i # j => q[i] # q[j]}
            : n \in 0..MaxFiles }

Directories == { <<"top", "pkg">>, <<"top", "lib">> }

CallOf(fn, source, directory_walk, ignore_init_files, multiprocessing) ==
    [fn |-> fn, source |-> source, xsd_models |-> "dataclass",
     directory_walk |-> directory_walk, ignore_init_files |-> ignore_init_files,
     multiprocessing |-> multiprocessing]

\* the ways the field of type Widget is written
Annotations == { Name("Widget"), SimpleString("\"", <<"Widget">>),
                 SimpleString("'", <<"Widget">>) }

\* code text given to root_finder
Codes ==
    { WidgetFile, SelfFile, SingleFile, SingleAndPlainFile, InitFile,
      NoClassFile, OtherWidgetFile, NestedFile }
    \cup { PairFile(ImportDataclass, "dataclass", a) : a \in Annotations }

RootFinderCalls ==
    { CallOf("root_finder", src, FALSE, TRUE, MultiprocessingSettings(FALSE, 0, 0)) :
        src \in {PathSource(f) : f \in Files \ {FInit}}
               \cup {CodeSource(c) : c \in Codes} }

\* the xsd_models argument: the three conventions, and a value that is none
\* of them
Selectors == XsdModels \cup {"xml"}

WithModels(c, xsd_models) == [c EXCEPT !.xsd_models = xsd_models]

\* the statements that bring the marker of a convention in, or do not
MarkerImports(xsd_models) ==
    { ExplicitImport(xsd_models), ImportStar(0, MarkerOrigin(xsd_models)),
      ImportStar(1, MarkerOrigin(xsd_models)), ImportStar(0, Name("typing")) }

\* root_finder on code written for one convention, analysed under every
\* selector
ConventionCalls ==
    { WithModels(CallOf("root_finder", CodeSource(c), FALSE, TRUE,
                        MultiprocessingSettings(FALSE, 0, 0)), sel) :
        c \in UNION { {PairFile(i, x, Name("Widget")) : i \in MarkerImports(x)} :
                        x \in XsdModels }
              \cup {InitFile, NoClassFile}
              \cup {QualifiedMarkerFile(x) : x \in {"dataclass", "attrs"}},
        sel \in Selectors }

\* root_finders with a selector that is no convention, on at most one file
UnknownSelectorCalls ==
    { WithModels(CallOf("root_finders", Collection(q), FALSE, TRUE, mp), "xml") :
        q \in {c \in Collections : Len(c) <= 1}, mp \in Settings }

\* ignore_init_files is switched off only where an __init__.py is among the
\* files, directory_walk is set only for a directory
RootFindersCalls ==
    { CallOf("root_finders", Collection(q), FALSE, ign, mp) :
        q \in Collections, ign \in BOOLEAN, mp \in Settings }
    \cup { CallOf("root_finders", PathSource(f), FALSE, TRUE, mp) :
             f \in {F1, FMissing}, mp \in Settings }
    \cup { CallOf("root_finders", PathSource(d), walk, TRUE, mp) :
             d \in Directories, walk \in BOOLEAN, mp \in Settings }

\* the calls made on the disks of ResolutionFileSystems: each file by itself,
\* and file1.py together with each of the files that refer to it
ResolutionCalls ==
    { CallOf("root_finder", PathSource(f), FALSE, TRUE,
             MultiprocessingSettings(FALSE, 0, 0)) : f \in {F1, F2, F3} }
    \cup { CallOf("root_finders", Collection(q), FALSE, TRUE,
                  MultiprocessingSettings(FALSE, 0, 0)) :
             q \in {<<F1, F2>>, <<F2, F1>>, <<F1, F3>>, <<F3, F1>>} }

Calls ==
    RootFinderCalls \cup ConventionCalls \cup UnknownSelectorCalls \cup
    { c \in RootFindersCalls :
        /\ ~c.ignore_init_files => FInit \in Range(c.source.paths)
        /\ c.directory_walk => c.source.path = <<"top", "lib">> }

(***************************************************************************)
(* Outcomes, futures                                                       *)
(***************************************************************************)

_MAX_RETRIES == 3

NoOutcome ==
    [kind |-> "none", ret |-> NoRoots, exc |-> "none", message |-> "",
     source |-> None, file |-> None]

Returned(ret) == [NoOutcome EXCEPT !.kind = "return", !.ret = ret]

\* an exception of the visit of `file`, propagating as it is
Raised(exc, file) == [NoOutcome EXCEPT !.kind = "raise", !.exc = exc, !.file = file]

XSDataRootFinderError(message, source) ==
    [NoOutcome EXCEPT !.kind = "raise", !.exc = "XSDataRootFinderError",
                      !.message = message, !.source = source, !.file = source]

\* restarted: the call before this one was made in another process
NoPrev == [made |-> FALSE, restarted |-> FALSE,
           call |-> CallOf("root_finder", CodeSource(<< >>), FALSE, TRUE,
                           MultiprocessingSettings(FALSE, 0, 0)),
           outcome |-> NoOutcome]

\* a submitted task and the visitor it holds while it runs
Future(path) ==
    [path |-> path, st |-> "pending", exc |-> "none", yielded |-> FALSE,
     ref_classes |-> {}, defined_classes |-> {}]

\* a file named __init__.py is skipped whatever ignore_init_files says
IsInitFileAlways(path) == path[Len(path)] = "__init__.py"

is_init_file(path) ==
    call.ignore_init_files /\ path[Len(path)] = "__init__.py"

is_dir(path) == \E f \in DOMAIN fs : Len(f) > Len(path) /\ SubSeq(f, 1, Len(path)) = path

\* Path(source).rglob("*.py") or .glob("*.py")
Glob(path, directory_walk) ==
    {f \in DOMAIN fs :
        /\ Len(f) > Len(path) /\ SubSeq(f, 1, Len(path)) = path
        /\ directory_walk \/ Len(f) = Len(path) + 1}

\* visit_and_consolidate_by_path up to the consolidation: the visitor of the
\* file, or the exception
VisitByPath(path, hash) ==
    IF ~is_file(PathSource(path))
    THEN Fail(_XSDataRootFinderVisitor(call.xsd_models, None), "FileNotFoundError")
    ELSE _python_source_visit(PathSource(path), call.xsd_models, hash)

(***************************************************************************)
(* The state machine                                                       *)
(***************************************************************************)

Fresh(c) ==
    /\ call = c
    /\ pc = "start"
    /\ paths = << >>
    /\ done_paths = 0
    /\ futures = << >>
    /\ refs = {}
    /\ defs = {}
    /\ cur = 0
    /\ retry_counter = 0
    /\ attempts = 0
    /\ raising = NoOutcome
    /\ outcome = NoOutcome

\* visits is a function of the disk and of the cache as the call finds it:
\* for each path the visitors, or the exception, that visiting it yields, one
\* for each iteration order of the file's star imports
VisitsOfFiles ==
    [path \in Files |->
        {VisitByPath(path, hash) : hash \in Iterations(SourceStars(PathSource(path)))}]

\* a process starts with an empty cache
Init ==
    /\ \/ fs \in FileSystems /\ \E c \in Calls : Fresh(c)
       \/ fs \in ResolutionFileSystems /\ \E c \in ResolutionCalls : Fresh(c)
    /\ cache = << >>
    /\ visits = VisitsOfFiles
    /\ prev = NoPrev

\* root_finder: _python_source_visit; the visitor's own sets go to _root_finder
RootFinderVisit ==
    /\ pc = "start"
    /\ call.fn = "root_finder"
    /\ \E hash \in Iterations(SourceStars(call.source)) :
          LET visitor == _python_source_visit(call.source, call.xsd_models, hash)
          IN  /\ cache' = Remember(cache, visitor.cache_keys)
              /\ IF visitor.exc # "none"
                 THEN /\ outcome' = Raised(visitor.exc, call.source.path)
                      /\ pc' = "done"
                      /\ UNCHANGED <<refs, defs>>
                 ELSE /\ refs' = visitor.ref_classes
                      /\ defs' = visitor.defined_classes
                      /\ pc' = "find"
                      /\ UNCHANGED outcome
    /\ UNCHANGED <<fs, visits, call, paths, done_paths, futures, cur, retry_counter,
                   attempts, raising, prev>>

\* visitor.root_finder() / consolidated_classes.root_finder()
Find ==
    /\ pc = "find"
    /\ \E defs_iter \in Iterations(defs) :
          outcome' = Returned(_root_finder(defs_iter, refs))
    /\ pc' = "done"
    /\ UNCHANGED <<fs, visits, cache, call, paths, done_paths, futures, refs, defs, cur,
                   retry_counter, attempts, raising, prev>>

\* root_finders: normalize the sources into a list of file paths
Normalize ==
    /\ pc = "start"
    /\ call.fn = "root_finders"
    /\ IF call.source.kind = "path" /\ is_dir(call.source.path)
       THEN paths' \in Iterations(Glob(call.source.path, call.directory_walk))
       ELSE IF call.source.kind = "path"
       THEN paths' = <<call.source.path>>
       ELSE paths' = call.source.paths
    /\ pc' = IF ~call.multiprocessing.enabled THEN "iterate"
             ELSE IF paths' = << >> THEN "as_completed" ELSE "submit"
    /\ UNCHANGED <<fs, visits, cache, call, done_paths, futures, refs, defs, cur, retry_counter,
                   attempts, raising, outcome, prev>>

(* Sequential mode: for path in source *)

IterateSkip ==
    /\ pc = "iterate"
    /\ done_paths < Len(paths)
    /\ is_init_file(paths[done_paths + 1])
    /\ done_paths' = done_paths + 1
    /\ UNCHANGED <<fs, visits, cache, call, pc, paths, futures, refs, defs, cur, retry_counter,
                   attempts, raising, outcome, prev>>

\* visit_and_consolidate_by_path in the calling thread; an exception is not
\* caught
IterateVisit ==
    /\ pc = "iterate"
    /\ done_paths < Len(paths)
    /\ ~is_init_file(paths[done_paths + 1])
    /\ \E visitor \in visits[paths[done_paths + 1]] :
          LET path == paths[done_paths + 1]
          IN  /\ cache' = Remember(cache, visitor.cache_keys)
              /\ IF visitor.exc # "none"
                 THEN /\ outcome' = Raised(visitor.exc, path)
                      /\ pc' = "done"
                      /\ UNCHANGED <<refs, defs, done_paths>>
                 ELSE /\ refs' = refs \cup visitor.ref_classes
                      /\ defs' = defs \cup visitor.defined_classes
                      /\ done_paths' = done_paths + 1
                      /\ UNCHANGED <<pc, outcome>>
    /\ UNCHANGED <<fs, visits, call, paths, futures, cur, retry_counter, attempts,
                   raising, prev>>

\* reading the file fails in the operating system (an I/O timeout)
IterateTimeoutError ==
    /\ pc = "iterate"
    /\ done_paths < Len(paths)
    /\ ~is_init_file(paths[done_paths + 1])
    /\ is_file(PathSource(paths[done_paths + 1]))
    /\ outcome' = Raised("TimeoutError", paths[done_paths + 1])
    /\ pc' = "done"
    /\ UNCHANGED <<fs, visits, cache, call, paths, done_paths, futures, refs, defs, cur,
                   retry_counter, attempts, raising, prev>>

IterateEnd ==
    /\ pc = "iterate"
    /\ done_paths = Len(paths)
    /\ pc' = "find"
    /\ UNCHANGED <<fs, visits, cache, call, paths, done_paths, futures, refs, defs, cur,
                   retry_counter, attempts, raising, outcome, prev>>

(* Concurrent mode: the calling thread *)

\* thread_executor.submit(...) for the next path of the comprehension
Submit ==
    /\ pc = "submit"
    /\ done_paths < Len(paths)
    /\ futures' = IF is_init_file(paths[done_paths + 1]) THEN futures
                  ELSE Append(futures, Future(paths[done_paths + 1]))
    /\ done_paths' = done_paths + 1
    /\ pc' = IF done_paths' = Len(paths) THEN "as_completed" ELSE "submit"
    /\ UNCHANGED <<fs, visits, cache, call, paths, refs, defs, cur, retry_counter, attempts,
                   raising, outcome, prev>>

\* as_completed yields a finished future: retry_counter = 0
NextCompleted(i) ==
    /\ pc = "as_completed"
    /\ i \in 1..Len(futures)
    /\ futures[i].st = "done"
    /\ ~futures[i].yielded
    /\ futures' = [futures EXCEPT ![i].yielded = TRUE]
    /\ cur' = i
    /\ retry_counter' = 0
    /\ attempts' = 0
    /\ pc' = "result"
    /\ UNCHANGED <<fs, visits, cache, call, paths, done_paths, refs, defs, raising, outcome, prev>>

\* the timeout is raised once retry_counter reaches _MAX_RETRIES
ResultRaisesAtMaxRetries ==
    /\ pc = "result"
    /\ attempts' = attempts + 1
    /\ IF futures[cur].exc = "none"
       THEN /\ pc' = "as_completed"                                    \* break
            /\ UNCHANGED <<retry_counter, raising>>
       ELSE IF futures[cur].exc = "TimeoutError"
       THEN /\ retry_counter' = retry_counter + 1
            /\ IF retry_counter' >= _MAX_RETRIES
               THEN /\ raising' = Raised("TimeoutError", futures[cur].path)
                    /\ pc' = "shutdown"
               ELSE UNCHANGED <<raising, pc>>
       ELSE /\ raising' = XSDataRootFinderError("Task was not completed succesfully",
                                                futures[cur].path)
            /\ pc' = "shutdown"
            /\ UNCHANGED retry_counter
    /\ UNCHANGED <<fs, visits, cache, call, paths, done_paths, futures, refs, defs, cur,
                   outcome, prev>>

\* the error carries the first path of the batch
ResultNamesFirstPath ==
    /\ pc = "result"
    /\ attempts' = attempts + 1
    /\ IF futures[cur].exc = "none"
       THEN /\ pc' = "as_completed"                                    \* break
            /\ UNCHANGED <<retry_counter, raising>>
       ELSE IF futures[cur].exc = "TimeoutError"
       THEN /\ retry_counter' = retry_counter + 1
            /\ IF retry_counter' > _MAX_RETRIES
               THEN /\ raising' = Raised("TimeoutError", futures[cur].path)
                    /\ pc' = "shutdown"
               ELSE UNCHANGED <<raising, pc>>
       ELSE /\ raising' = XSDataRootFinderError("Task was not completed succesfully",
                                                paths[1])
            /\ pc' = "shutdown"
            /\ UNCHANGED retry_counter
    /\ UNCHANGED <<fs, visits, cache, call, paths, done_paths, futures, refs, defs, cur,
                   outcome, prev>>

\* a failed task is taken for a finished one
ResultIgnoresFailure ==
    /\ pc = "result"
    /\ attempts' = attempts + 1
    /\ IF futures[cur].exc # "TimeoutError"
       THEN /\ pc' = "as_completed"                                    \* break
            /\ UNCHANGED <<retry_counter, raising>>
       ELSE /\ retry_counter' = retry_counter + 1
            /\ IF retry_counter' > _MAX_RETRIES
               THEN /\ raising' = Raised("TimeoutError", futures[cur].path)
                    /\ pc' = "shutdown"
               ELSE UNCHANGED <<raising, pc>>
    /\ UNCHANGED <<fs, visits, cache, call, paths, done_paths, futures, refs, defs, cur,
                   outcome, prev>>

\* future.result(timeout=...) of a finished future returns, or raises the
\* task's exception, at once
Result ==
    /\ pc = "result"
    /\ attempts' = attempts + 1
    /\ IF futures[cur].exc = "none"
       THEN /\ pc' = "as_completed"                                    \* break
            /\ UNCHANGED <<retry_counter, raising>>
       ELSE IF futures[cur].exc = "TimeoutError"
       THEN /\ retry_counter' = retry_counter + 1
            /\ IF retry_counter' > _MAX_RETRIES
               THEN /\ raising' = Raised("TimeoutError", futures[cur].path)
                    /\ pc' = "shutdown"
               ELSE UNCHANGED <<raising, pc>>
       ELSE /\ raising' = XSDataRootFinderError("Task was not completed succesfully",
                                                futures[cur].path)
            /\ pc' = "shutdown"
            /\ UNCHANGED retry_counter
    /\ UNCHANGED <<fs, visits, cache, call, paths, done_paths, futures, refs, defs, cur,
                   outcome, prev>>

\* as_completed is exhausted: the with-block is left
AllCompleted ==
    /\ pc = "as_completed"
    /\ \A i \in 1..Len(futures) : futures[i].yielded
    /\ pc' = "shutdown"
    /\ UNCHANGED <<fs, visits, cache, call, paths, done_paths, futures, refs, defs, cur,
                   retry_counter, attempts, raising, outcome, prev>>

\* ThreadPoolExecutor.__exit__: shutdown(wait=True) returns when every
\* submitted task has run; then the exception propagates, or the roots are found
Shutdown ==
    /\ pc = "shutdown"
    /\ \A i \in 1..Len(futures) : futures[i].st = "done"
    /\ IF raising.kind = "raise"
       THEN outcome' = raising /\ pc' = "done"
       ELSE pc' = "find" /\ UNCHANGED outcome
    /\ UNCHANGED <<fs, visits, cache, call, paths, done_paths, futures, refs, defs, cur,
                   retry_counter, attempts, raising, prev>>

(* Concurrent mode: the worker threads *)

\* tasks in a state that holds a worker thread
Busy == {i \in 1..Len(futures) : futures[i].st \in {"visited", "refs", "hung"}}

\* the work queue is first in, first out; a worker is free
CanStart(i) ==
    /\ i \in 1..Len(futures)
    /\ futures[i].st = "pending"
    /\ \A j \in 1..(i - 1) : futures[j].st # "pending"
    /\ \/ call.multiprocessing.max_workers = 0
       \/ Cardinality(Busy) < call.multiprocessing.max_workers

\* a worker runs visit_and_consolidate_by_path up to the visitor
TaskVisit(i) ==
    /\ CanStart(i)
    /\ \E visitor \in visits[futures[i].path] :
          /\ cache' = Remember(cache, visitor.cache_keys)
          /\ futures' = [futures EXCEPT ![i] =
                 IF visitor.exc # "none"
                 THEN [@ EXCEPT !.st = "done", !.exc = visitor.exc]
                 ELSE [@ EXCEPT !.st = "visited",
                                !.ref_classes = visitor.ref_classes,
                                !.defined_classes = visitor.defined_classes]]
    /\ UNCHANGED <<fs, visits, call, pc, paths, done_paths, refs, defs, cur, retry_counter,
                   attempts, raising, outcome, prev>>

\* _consoildate_classes in the worker: self.refs.update(visitor.ref_classes)
TaskUpdateRefs(i) ==
    /\ i \in 1..Len(futures)
    /\ futures[i].st = "visited"
    /\ refs' = refs \cup futures[i].ref_classes
    /\ futures' = [futures EXCEPT ![i].st = "refs", ![i].ref_classes = {}]
    /\ UNCHANGED <<fs, visits, cache, call, pc, paths, done_paths, defs, cur, retry_counter,
                   attempts, raising, outcome, prev>>

\* self.defs.update(visitor.defined_classes); the task is finished
TaskUpdateDefs(i) ==
    /\ i \in 1..Len(futures)
    /\ futures[i].st = "refs"
    /\ defs' = defs \cup futures[i].defined_classes
    /\ futures' = [futures EXCEPT ![i].st = "done", ![i].defined_classes = {}]
    /\ UNCHANGED <<fs, visits, cache, call, pc, paths, done_paths, refs, cur, retry_counter,
                   attempts, raising, outcome, prev>>

\* reading the file fails in the operating system (an I/O timeout): the task
\* raises the builtin TimeoutError
TaskTimeoutError(i) ==
    /\ CanStart(i)
    /\ is_file(PathSource(futures[i].path))
    /\ futures' = [futures EXCEPT ![i].st = "done", ![i].exc = "TimeoutError"]
    /\ UNCHANGED <<fs, visits, cache, call, pc, paths, done_paths, refs, defs, cur, retry_counter,
                   attempts, raising, outcome, prev>>

\* reading the file blocks for ever: the task never finishes
TaskHang(i) ==
    /\ CanStart(i)
    /\ is_file(PathSource(futures[i].path))
    /\ futures' = [futures EXCEPT ![i].st = "hung"]
    /\ UNCHANGED <<fs, visits, cache, call, pc, paths, done_paths, refs, defs, cur, retry_counter,
                   attempts, raising, outcome, prev>>

\* The caller keeps the value a call returned and calls the entry point a
\* second time on the same sources, the disk unchanged: with the same
\* arguments, or in sequential mode after a call in concurrent mode.
Repeat ==
    /\ pc = "done"
    /\ outcome.kind = "return"
    /\ ~prev.made
    /\ prev' = [made |-> TRUE, restarted |-> FALSE, call |-> call, outcome |-> outcome]
    /\ \E mp \in {call.multiprocessing, MultiprocessingSettings(FALSE, 0, 0)} :
          call' = [call EXCEPT !.multiprocessing = mp]
    /\ pc' = "start"
    /\ paths' = << >>
    /\ done_paths' = 0
    /\ futures' = << >>
    /\ refs' = {}
    /\ defs' = {}
    /\ cur' = 0
    /\ retry_counter' = 0
    /\ attempts' = 0
    /\ raising' = NoOutcome
    /\ outcome' = NoOutcome
    /\ UNCHANGED <<fs, visits, cache>>

\* Between two calls of root_finder on a file, in one process, another
\* program rewrites file1.py, a file the first call looked into: it now
\* holds the class Alpha only.  The call is made again.
Rewrite ==
    /\ pc = "done"
    /\ outcome.kind = "return"
    /\ ~prev.made /\ ~prev.restarted
    /\ call.fn = "root_finder"
    /\ call.source.kind = "path"
    /\ fs \in FileSystems
    /\ \E k \in DOMAIN cache : k[1] = F1
    /\ fs' = [fs EXCEPT ![F1] = SingleFile]
    /\ UNCHANGED <<visits, cache, call, prev>>
    /\ pc' = "call"
    /\ paths' = << >>
    /\ done_paths' = 0
    /\ futures' = << >>
    /\ refs' = {}
    /\ defs' = {}
    /\ cur' = 0
    /\ retry_counter' = 0
    /\ attempts' = 0
    /\ raising' = NoOutcome
    /\ outcome' = NoOutcome

\* The process that made the call after the file was rewritten ends; a new
\* process, its cache empty, makes the same call on the same disk.
Restart ==
    /\ pc = "done"
    /\ outcome.kind = "return"
    /\ ~prev.made /\ ~prev.restarted
    /\ fs \notin FileSystems \cup ResolutionFileSystems
    /\ prev' = [made |-> FALSE, restarted |-> TRUE, call |-> call, outcome |-> outcome]
    /\ cache' = << >>
    /\ UNCHANGED <<fs, visits, call>>
    /\ pc' = "call"
    /\ paths' = << >>
    /\ done_paths' = 0
    /\ futures' = << >>
    /\ refs' = {}
    /\ defs' = {}
    /\ cur' = 0
    /\ retry_counter' = 0
    /\ attempts' = 0
    /\ raising' = NoOutcome
    /\ outcome' = NoOutcome

\* the call made after a rewrite or in a new process begins: what the visits
\* yield is told by the disk and the cache as they are now
CallAgain ==
    /\ pc = "call"
    /\ visits' = VisitsOfFiles
    /\ pc' = "start"
    /\ UNCHANGED <<fs, cache, call, paths, done_paths, futures, refs, defs, cur,
                   retry_counter, attempts, raising, outcome, prev>>

\* the most tasks a call of the model submits
MaxTasks == 3

Tasks == 1..MaxTasks

Main ==
    \/ RootFinderVisit
    \/ Find
    \/ Normalize
    \/ IterateSkip
    \/ IterateVisit
    \/ IterateTimeoutError
    \/ IterateEnd
    \/ Submit
    \/ \E i \in Tasks : NextCompleted(i)
    \/ Result
    \/ AllCompleted
    \/ Shutdown

TaskRun(i) == TaskVisit(i) \/ TaskUpdateRefs(i) \/ TaskUpdateDefs(i)

Next ==
    \/ Main
    \/ \E i \in Tasks : TaskRun(i)
    \/ \E i \in Tasks : TaskTimeoutError(i)
    \/ \E i \in Tasks : TaskHang(i)
    \/ Repeat
    \/ Rewrite
    \/ Restart
    \/ CallAgain

Spec == Init /\ [][Next]_vars

\* Concurrent mode with a timeout configured: a call of root_finders with
\* multiprocessing enabled and a timeout for each task.
TimeoutInit ==
    /\ Init
    /\ call.fn = "root_finders"
    /\ call.multiprocessing.enabled
    /\ call.multiprocessing.timeout > 0

TimeoutNext ==
    \/ Normalize
    \/ Submit
    \/ \E i \in Tasks : NextCompleted(i)
    \/ Result
    \/ AllCompleted
    \/ Shutdown
    \/ Find
    \/ \E i \in Tasks : TaskRun(i)
    \/ \E i \in Tasks : TaskTimeoutError(i)
    \/ \E i \in Tasks : TaskHang(i)

\* the steps of the calling thread in concurrent mode
Orchestrator ==
    \/ Normalize
    \/ Submit
    \/ \E i \in Tasks : NextCompleted(i)
    \/ Result
    \/ AllCompleted
    \/ Shutdown
    \/ Find

\* The calling thread goes on whenever it can; a worker thread that holds a
\* task goes on with it.
FairSpec ==
    /\ TimeoutInit
    /\ [][TimeoutNext]_vars
    /\ WF_vars(Orchestrator)
    /\ \A i \in Tasks : WF_vars(TaskRun(i))

(***************************************************************************)
(* Properties                                                              *)
(***************************************************************************)

\* a call has returned a value (the roots, or None)
HasReturned == pc = "done" /\ outcome.kind = "return"

\* the definitions of the consolidated sets whose key is not referenced
Surviving == {d \in defs : [path |-> d.path, name |-> d.name] \notin refs}

\* the files a call of root_finders visits
Visited == {f \in Range(paths) : ~is_init_file(f)}

\* C1: the Root Finder returns exactly the definitions whose key
\* (defining file, name) is not in the references, each of them once; for
\* the sets of one file (root_finder) and for the merged sets (root_finders).
RootsAreExactlyUnreferenced ==
    HasReturned =>
        /\ Range(outcome.ret.list) = Surviving
        /\ Len(outcome.ret.list) = Cardinality(Surviving)

\* a call over several files returned roots, a definition being held back
\* by a reference
RootsAreExactlyUnreferenced_Witness ==
    /\ HasReturned
    /\ call.fn = "root_finders"
    /\ Cardinality(Visited) >= 2
    /\ Len(outcome.ret.list) >= 2
    /\ Surviving # defs

\* C3: the Root Finder never returns an empty list: it returns None when no
\* definition survives the filter, and a list it returns has an element.
NeverAnEmptyList ==
    HasReturned =>
        /\ outcome.ret.kind = "list" => Len(outcome.ret.list) >= 1
        /\ Surviving = {} => outcome.ret.kind = "None"

\* every definition was filtered out and None was returned
NeverAnEmptyList_Witness ==
    /\ HasReturned
    /\ defs # {}
    /\ Surviving = {}
    /\ outcome.ret.kind = "None"

\* C4: a returned list is in non-decreasing order of (defining file, name).
ListIsSorted ==
    HasReturned =>
        \A i \in 1..(Len(outcome.ret.list) - 1) :
            LET x == outcome.ret.list[i]
                y == outcome.ret.list[i + 1]
            IN  \/ SeqLess(x.path, y.path)
                \/ x.path = y.path /\ (x.name = y.name \/ SeqLess(x.name, y.name))

\* a list of roots of two files was returned
ListIsSorted_Witness ==
    /\ HasReturned
    /\ Len(outcome.ret.list) >= 3
    /\ \E i, j \in 1..Len(outcome.ret.list) :
           outcome.ret.list[i].path # outcome.ret.list[j].path

\* a root of file f called `name` is in the returned list
HasRoot(f, name) ==
    \E i \in 1..Len(outcome.ret.list) :
        outcome.ret.list[i].path = f /\ outcome.ret.list[i].name = <<name>>

\* file f defines a class `name` that no annotation and no base class of f
\* names
DefinesUnreferenced(f, name) ==
    /\ Parses(fs[f])
    /\ \E i \in 1..Len(fs[f]) : fs[f][i].k = "ClassDef" /\ fs[f][i].name = name
    /\ \A i \in 1..Len(fs[f]) :
          /\ fs[f][i].k = "AnnAssign" =>
                 <<name>> \notin Range(AnnotationNames(fs[f][i].annotation))
          /\ fs[f][i].k = "ClassDef" => Name(name) \notin Range(fs[f][i].bases)

\* the module an import-from statement of file g names
ImportedModule(g, node) ==
    ImportFromModule(_XSDataRootFinderVisitor("dataclass", g), node).val

\* the statement imports `name`, by that name, from a module called as file f
ImportsFrom(g, node, f, name) ==
    /\ node.k = "ImportFrom"
    /\ ~node.star
    /\ ImportAlias(Name(name), NoNode) \in Range(node.names)
    /\ LET m == module(ImportedModule(g, node))
       IN  m[Len(m)] \o ".py" = f[Len(f)]

\* file g imports `name` from f, and a later field of g is annotated with it
ImportsAndUses(g, f, name) ==
    /\ Parses(fs[g])
    /\ \E i, j \in 1..Len(fs[g]) :
          /\ i < j
          /\ ImportsFrom(g, fs[g][i], f, name)
          /\ fs[g][j] = AnnAssign(Name(name))

\* the Module Resolver resolves the import of `name` in g to file f
ImportResolves(g, f, name) ==
    \E i \in 1..Len(fs[g]) :
        /\ ImportsFrom(g, fs[g][i], f, name)
        /\ module_to_path(
               from_levels(parts(ImportedModule(g, fs[g][i])) \o << <<name>> >>),
               g) = Ok(f)

\* root_finder(f) returns Widget; root_finders over f and g returns no Widget
\* of f
SuppressedAcrossFiles(f, g) ==
    /\ (HasReturned /\ call.fn = "root_finder" /\ call.source = PathSource(f))
           => HasRoot(f, "Widget")
    /\ (HasReturned /\ call.fn = "root_finders" /\ Visited = {f, g})
           => ~HasRoot(f, "Widget")

\* C2 as stated: when file1 defines Widget, unreferenced in file1, and file2
\* imports Widget and has a field of that type, root_finder(file1) returns
\* Widget and root_finders([file1, file2]) does not, in whatever order the
\* files are given or visited.
CrossFileSuppression ==
    \A f, g \in DOMAIN fs :
        (f # g /\ DefinesUnreferenced(f, "Widget") /\ ImportsAndUses(g, f, "Widget"))
            => SuppressedAcrossFiles(f, g)

\* C2, amended: the same, provided the Module Resolver resolves the import
\* of Widget in file2 to file1.
ResolvedCrossFileSuppression ==
    \A f, g \in DOMAIN fs :
        (/\ f # g
         /\ DefinesUnreferenced(f, "Widget")
         /\ ImportsAndUses(g, f, "Widget")
         /\ ImportResolves(g, f, "Widget"))
            => SuppressedAcrossFiles(f, g)

\* root_finders returned for file1 and a file2 whose import resolves, file2
\* given first, and Widget is not among the roots
ResolvedCrossFileSuppression_Witness ==
    /\ HasReturned
    /\ call.fn = "root_finders"
    /\ Len(paths) = 2
    /\ paths[2] = F1
    /\ DefinesUnreferenced(F1, "Widget")
    /\ ImportsAndUses(paths[1], F1, "Widget")
    /\ ImportResolves(paths[1], F1, "Widget")
    /\ outcome.ret.kind = "list"
    /\ ~HasRoot(F1, "Widget")

\* the call before this one and this one both returned a value
BothReturned ==
    /\ HasReturned
    /\ prev.made
    /\ prev.outcome.kind = "return"

\* C5: two runs of the same entry point on the same unchanged input return
\* the same RootModels in the same order, whatever the iteration order of
\* the sets and the scheduling.
SecondRunReturnsTheSame ==
    (BothReturned /\ prev.call = call) => outcome.ret = prev.outcome.ret

\* C6: root_finders returns the same result for every order in which the
\* tasks of concurrent mode run, complete and are merged, and the same
\* result as sequential mode on the same files.
SameResultInEveryModeAndOrder ==
    (/\ BothReturned
     /\ call.fn = "root_finders"
     /\ call.multiprocessing.enabled \/ prev.call.multiprocessing.enabled)
        => outcome.ret = prev.outcome.ret

\* C7: in concurrent mode the accumulation sets are written only by the
\* calling thread, where it retrieves the result of a completed task, never
\* by a worker while tasks execute.
SetsWrittenOnlyAtRetrieval ==
    [][(/\ call.multiprocessing.enabled
        /\ pc # "done"
        /\ refs' # refs \/ defs' # defs) => pc = "result"]_vars

HungTaskLeadsToTimeoutError ==
    (/\ call.multiprocessing.timeout > 0
     /\ \E i \in 1..Len(futures) : futures[i].st = "hung")
        ~> (pc = "done" /\ outcome.exc = "TimeoutError")

\* the visit of file P raised an exception that is no timeout
VisitFailed(P) ==
    \E visitor \in visits[P] : visitor.exc \notin {"none", "TimeoutError"}

\* C10 as stated: in sequential mode as in concurrent mode, when the visit
\* of a file P fails with an exception that is no timeout, root_finders
\* raises XSDataRootFinderError with a message and source = P.
FailureIsWrapped ==
    (/\ pc = "done"
     /\ call.fn = "root_finders"
     /\ outcome.kind = "raise"
     /\ outcome.exc # "TimeoutError")
        => /\ outcome.exc = "XSDataRootFinderError"
           /\ outcome.message # ""
           /\ outcome.source \in Visited
           /\ VisitFailed(outcome.source)

\* C10, amended: in concurrent mode, when the calling thread retrieves the
\* result of the task of a file P whose visit failed with an exception that
\* is no timeout, root_finders raises XSDataRootFinderError with a message
\* and source = P; in sequential mode the exception of the visit propagates
\* as it is.
FailureIsWrappedInConcurrentMode ==
    (pc = "done" /\ call.fn = "root_finders") =>
        /\ (call.multiprocessing.enabled /\ cur # 0
                /\ futures[cur].exc \notin {"none", "TimeoutError"})
               => /\ outcome.exc = "XSDataRootFinderError"
                  /\ outcome.message # ""
                  /\ outcome.source = futures[cur].path
        /\ (/\ call.multiprocessing.enabled
            /\ outcome.kind = "raise"
            /\ outcome.exc # "TimeoutError")
               => /\ outcome.exc = "XSDataRootFinderError"
                  /\ outcome.source \in Visited
                  /\ VisitFailed(outcome.source)
        /\ (~call.multiprocessing.enabled /\ outcome.kind = "raise")
               => outcome.exc # "XSDataRootFinderError"

\* of two submitted files the second failed, and the error names it
FailureIsWrappedInConcurrentMode_Witness ==
    /\ pc = "done"
    /\ call.multiprocessing.enabled
    /\ Len(futures) = 2
    /\ outcome.exc = "XSDataRootFinderError"
    /\ outcome.source = futures[2].path
    /\ futures[1].exc = "none"

\* the calling thread has observed a fatal task outcome: an exception is
\* propagating out of the with-block
FatalObserved == raising.kind = "raise"

\* C11: once the calling thread has observed a fatal task outcome, no task
\* of the batch that has not started yet is started afterwards: the batch is
\* aborted and the error reaches the caller without waiting for such tasks.
NoTaskStartsAfterFatalOutcome ==
    [][FatalObserved =>
          \A i \in 1..Len(futures) :
              futures[i].st = "pending" => futures'[i].st = "pending"]_vars

\* the sets hold what a successful visit of file f yields
Consolidated(f) ==
    \E visitor \in visits[f] :
        /\ visitor.exc = "none"
        /\ visitor.ref_classes \subseteq refs
        /\ visitor.defined_classes \subseteq defs

\* C12: whenever root_finders returns (a list or None), every input file
\* that was not skipped as an __init__.py has been visited successfully and
\* its definitions and references are in the sets the result was computed
\* from; when the visit of a file failed, or its task raised a timeout, the
\* call raises and returns nothing.
NeverSilentlyIncomplete ==
    (pc = "done" /\ call.fn = "root_finders") =>
        /\ outcome.kind = "return" =>
              /\ \A f \in Visited : Consolidated(f)
              /\ \E defs_iter \in Iterations(defs) :
                     outcome.ret = _root_finder(defs_iter, refs)
              /\ ~call.multiprocessing.enabled => done_paths = Len(paths)
              /\ call.multiprocessing.enabled =>
                     /\ {futures[i].path : i \in 1..Len(futures)} = Visited
                     /\ \A i \in 1..Len(futures) :
                            futures[i].st = "done" /\ futures[i].exc = "none"
        /\ (\E i \in 1..Len(futures) : futures[i].exc # "none")
               => outcome.kind = "raise"
        /\ outcome.kind = "raise" => outcome.ret = NoRoots

\* a concurrent call over two files, the second retrieved first, returned
\* roots computed from the definitions and references of both
NeverSilentlyIncomplete_Witness ==
    /\ pc = "done"
    /\ call.fn = "root_finders"
    /\ call.multiprocessing.enabled
    /\ Len(futures) = 2
    /\ cur = 1
    /\ outcome.kind = "return"
    /\ outcome.ret.kind = "list"
    /\ refs # {}
    /\ \E d1, d2 \in defs : d1.path # d2.path

\* C19: when a path given to root_finders does not exist, the call raises
\* the not-found error (FileNotFoundError), in sequential mode and in
\* concurrent mode alike, and the path is never parsed.
NotFoundErrorInEveryMode ==
    (/\ pc = "done"
     /\ call.fn = "root_finders"
     /\ Visited # {}
     /\ \A f \in Visited : f \notin DOMAIN fs)
        => /\ outcome.kind = "raise"
           /\ outcome.exc = "FileNotFoundError"
           /\ defs = {}

\* C20: when the timeout of a task exceeds the retry budget, the error
\* raised to the caller identifies the source file of that task.
TimeoutNamesTheSource ==
    (/\ pc = "done"
     /\ call.multiprocessing.enabled
     /\ outcome.exc = "TimeoutError")
        => outcome.source = futures[cur].path

\* the file a call of root_finder, or of root_finders on one file, analyses
Analysed ==
    IF call.fn = "root_finder" THEN call.source
    ELSE IF Cardinality(Visited) = 1 THEN PathSource(CHOOSE f \in Visited : TRUE)
    ELSE CodeSource(<< >>)

\* the syntax tree of a source
ContentOf(source) ==
    IF source.kind = "code" THEN source.content
    ELSE IF is_file(source) /\ Parses(fs[source.path]) THEN fs[source.path]
    ELSE << >>

\* the path the RootModels of a source carry
PathOf(source) == IF is_file(source) THEN source.path ELSE None

\* a call of root_finder on a file that exists and parses, or on code, with
\* one of the three conventions, has ended
AnalysedOne ==
    /\ pc = "done"
    /\ call.fn = "root_finder"
    /\ call.xsd_models \in XsdModels
    /\ call.source.kind = "code" \/ is_file(call.source)
    /\ call.source.kind = "path" => Parses(fs[call.source.path])

\* the file imports the marker of the convention, by name or by wildcard
ImportsMarker(content, xsd_models) ==
    \E i \in 1..Len(content) :
        content[i] \in {ExplicitImport(xsd_models),
                        ImportStar(0, MarkerOrigin(xsd_models))}

\* how many of the events a..b of the traversal are of the kind
Count(content, a, b, kind) == Cardinality({l \in a..b : content[l].k = kind})

\* the classes entered and not left after the first k events of the
\* traversal: a class is left by the first leave that exceeds the classes
\* entered after it
OpenClasses(content, k) ==
    {i \in 1..k :
        /\ content[i].k = "ClassDef"
        /\ \A j \in (i + 1)..k :
               Count(content, i + 1, j, "leave_ClassDef")
                   <= Count(content, i + 1, j, "ClassDef")}

\* the top-level classes of the file that follow the convention
RelevantModels(content, xsd_models) ==
    {i \in 1..Len(content) :
        /\ content[i].k = "ClassDef"
        /\ OpenClasses(content, i - 1) = {}
        /\ ImportsMarker(content, xsd_models)
        /\ Marker(xsd_models) \in
               Range(IF xsd_models = "pydantic" THEN content[i].bases
                     ELSE content[i].decorators)}

\* the annotation names the class b: as a name, as a forward reference in
\* quotes of either kind, or as an argument of a subscripted type
NamesClass(annotation, b) ==
    LET direct == {Name(b), SimpleString("\"", <<b>>), SimpleString("'", <<b>>)}
    IN  \/ annotation \in direct
        \/ /\ annotation.t = "Subscript"
           /\ \E k \in 1..Len(annotation.slice) : annotation.slice[k] \in direct

\* the annotations of the fields of the class defined at i
FieldsOf(content, i) ==
    LET end == CHOOSE j \in (i + 1)..Len(content) :
                   /\ content[j].k = "leave_ClassDef"
                   /\ \A l \in (i + 1)..(j - 1) : content[l].k # "leave_ClassDef"
    IN  {content[j].annotation :
            j \in {l \in (i + 1)..end : content[l].k = "AnnAssign"}}

HasFieldOfType(content, i, b) ==
    \E annotation \in FieldsOf(content, i) : NamesClass(annotation, b)

\* the RootModel of the class defined by `node` in `source`
RootModelOf(source, node) ==
    RootModel(PathOf(source), <<node.name>>, node.start, node.end)

\* the class names of the model's files
ClassNames == {"Alpha", "Beta", "Holder", "Widget"}

\* C13: for a file that contains exactly two relevant-model classes A and B
\* where A has a field whose type is B, root_finder returns exactly [A],
\* whatever else the classes and the file contain.
ReferrerIsTheOnlyRoot ==
    AnalysedOne =>
        LET content == ContentOf(call.source)
            models == RelevantModels(content, call.xsd_models)
        IN  \A a, b \in models :
                (/\ models = {a, b}
                 /\ a # b
                 /\ HasFieldOfType(content, a, content[b].name))
                    => outcome = Returned(Roots(<<RootModelOf(call.source, content[a])>>))

\* C14: for a file that contains one relevant-model class whose fields
\* reference no other relevant-model class, root_finder returns the list
\* holding exactly that class.
SingleModelIsTheRoot ==
    AnalysedOne =>
        LET content == ContentOf(call.source)
            models == RelevantModels(content, call.xsd_models)
        IN  \A a \in models :
                (/\ models = {a}
                 /\ \A b \in ClassNames \ {content[a].name} :
                        ~HasFieldOfType(content, a, b))
                    => outcome = Returned(Roots(<<RootModelOf(call.source, content[a])>>))

\* C15: for a file that contains no relevant-model class, root_finder
\* returns None, also when the file declares top-level classes that do not
\* match the convention.
NoModelsNoRoots ==
    (AnalysedOne /\ RelevantModels(ContentOf(call.source), call.xsd_models) = {})
        => outcome = Returned(NoRoots)

\* a class `name` is among the returned roots
HasRootNamed(name) ==
    \E i \in 1..Len(outcome.ret.list) : outcome.ret.list[i].name = <<name>>

\* the name is written in an annotation or as a base class of the file
Named(content, name) ==
    \E i \in 1..Len(content) :
        \/ content[i].k = "AnnAssign" /\ NamesClass(content[i].annotation, name)
        \/ content[i].k = "ClassDef" /\ Name(name) \in Range(content[i].bases)

\* the statement imports `name`, by that name or with the rest of a module
ImportsName(node, name) ==
    /\ node.k = "ImportFrom"
    /\ node.star \/ ImportAlias(Name(name), NoNode) \in Range(node.names)

\* an import of file f, by name or by wildcard, resolves `name` to a file that
\* defines a class of that name
ResolvesByImport(f, name) ==
    /\ f # None
    /\ \E i \in 1..Len(fs[f]) :
          /\ ImportsName(fs[f][i], name)
          /\ module_to_path(
                 from_levels(parts(ImportedModule(f, fs[f][i])) \o << <<name>> >>),
                 f).val # None

\* the file defines Derived(Base) and Base, both at top level
Inherits(content, derived, base) ==
    /\ content[derived].k = "ClassDef"
    /\ content[base].k = "ClassDef"
    /\ Name(content[base].name) \in Range(content[derived].bases)

\* Base is not among the roots, and Derived is when nothing names it
BaseSuppressed(content, derived, base) ==
    /\ ~HasRootNamed(content[base].name)
    /\ ~Named(content, content[derived].name) => HasRootNamed(content[derived].name)

\* C16 as stated: for a top-level class Derived(Base) where Base is defined
\* in the same file, Base is not in the roots and Derived is in the roots
\* when nothing references it.
InheritanceSuppression ==
    (HasReturned /\ call.xsd_models \in XsdModels) =>
        LET content == ContentOf(Analysed)
        IN  \A derived, base \in 1..Len(content) :
                Inherits(content, derived, base)
                    => BaseSuppressed(content, derived, base)

\* C16, amended: the same, provided no import of the file, by name or by
\* wildcard, resolves the name Base to a file that defines a class Base.
LocalInheritanceSuppression ==
    (HasReturned /\ call.xsd_models \in XsdModels) =>
        LET content == ContentOf(Analysed)
        IN  \A derived, base \in 1..Len(content) :
                (/\ Inherits(content, derived, base)
                 /\ ~ResolvesByImport(PathOf(Analysed), content[base].name))
                    => BaseSuppressed(content, derived, base)

\* root_finder returned for a file on disk that defines Widget and
\* Beta(Widget): Beta is a root and Widget is not
LocalInheritanceSuppression_Witness ==
    /\ HasReturned
    /\ call.fn = "root_finder"
    /\ call.source.kind = "path"
    /\ \E derived, base \in 1..Len(ContentOf(call.source)) :
          /\ Inherits(ContentOf(call.source), derived, base)
          /\ ~ResolvesByImport(call.source.path, "Widget")
    /\ HasRootNamed("Beta")
    /\ ~HasRootNamed("Widget")

\* the code with its wildcard imports of a module called as the marker's
\* module replaced by the explicit import of the marker
ExplicitVariant(content, xsd_models) ==
    [i \in 1..Len(content) |->
        IF \E relative \in 0..1 :
               content[i] = ImportStar(relative, MarkerOrigin(xsd_models))
        THEN ExplicitImport(xsd_models) ELSE content[i]]

\* the names written as base classes in the file
BaseNames(content) ==
    UNION { {<<content[i].bases[k].value>> : k \in 1..Len(content[i].bases)} :
              i \in {j \in 1..Len(content) : content[j].k = "ClassDef"} }

\* what the visit of the explicit variant collects
ExplicitVisit ==
    _python_source_visit(
        CodeSource(ExplicitVariant(call.source.content, call.xsd_models)),
        call.xsd_models, << >>)

\* the visit collected what `visitor` holds
SameAs(visitor) ==
    /\ visitor.exc = "none"
    /\ refs = visitor.ref_classes
    /\ defs = visitor.defined_classes

\* no annotation of the code yielded a reference: no class was relevant
NoFieldReference == \A r \in refs : r.name \in BaseNames(call.source.content)

\* the code has wildcard imports, none of them `from <marker's module>
\* import *`, and no import of the marker by name
OnlyOtherWildcards(content, xsd_models) ==
    /\ \E i \in 1..Len(content) : content[i].k = "ImportFrom" /\ content[i].star
    /\ ~ImportsMarker(content, xsd_models)

\* root_finder on code text with a convention has visited the code
VisitedCode ==
    /\ call.fn = "root_finder"
    /\ call.source.kind = "code"
    /\ call.xsd_models \in XsdModels
    /\ pc = "find" \/ HasReturned

\* C17 as stated: a class whose marker is written unqualified and comes into
\* scope by a wildcard import of the marker's module is classified as with
\* the explicit import of the marker (the visit collects the same
\* references); a wildcard import of a different module never makes a class
\* relevant.
WildcardClassification ==
    VisitedCode =>
        /\ ImportsMarker(call.source.content, call.xsd_models)
               => SameAs(ExplicitVisit)
        /\ OnlyOtherWildcards(call.source.content, call.xsd_models)
               => NoFieldReference

\* the module names the wildcard imports of the code are registered under
RegisteredStars == StarModules(None, call.source.content)

\* C17, amended: the same, a wildcard import being of the marker's module
\* when the name the import registry holds for it is the name of the
\* marker's module; for code text that is so for `from .dataclasses import *`
\* too, the leading dots being dropped.
RegisteredWildcardClassification ==
    VisitedCode =>
        /\ (\/ ImportsMarker(call.source.content, call.xsd_models)
            \/ <<MarkerOrigin(call.xsd_models).value>> \in RegisteredStars)
               => SameAs(ExplicitVisit)
        /\ (/\ RegisteredStars # {}
            /\ <<MarkerOrigin(call.xsd_models).value>> \notin RegisteredStars
            /\ ExplicitImport(call.xsd_models) \notin Range(call.source.content))
               => NoFieldReference

\* root_finder with the convention pydantic returned for code with
\* `from pydantic import *`, Holder(BaseModel) and Widget(BaseModel): Holder's
\* field suppressed Widget
RegisteredWildcardClassification_Witness ==
    /\ HasReturned
    /\ call.fn = "root_finder"
    /\ call.xsd_models = "pydantic"
    /\ call.source =
           CodeSource(PairFile(ImportStar(0, Name("pydantic")), "pydantic", Name("Widget")))
    /\ HasRootNamed("Holder")
    /\ ~HasRootNamed("Widget")

\* C18: a value of xsd_models that is none of the conventions makes
\* root_finder and root_finders raise the configuration error (ValueError)
\* before any file is read, parsed or visited, for every input; no such call
\* returns a result.
UnknownSelectorRaises ==
    call.xsd_models \notin XsdModels =>
        /\ defs = {} /\ refs = {}
        /\ pc = "done" => outcome.kind = "raise" /\ outcome.exc = "ValueError"

\* the input files of a call of root_finders that it has to visit: all of
\* them, but those named __init__.py when ignore_init_files is set
ToVisit ==
    {f \in Range(paths) : ~(call.ignore_init_files /\ f[Len(f)] = "__init__.py")}

\* refs and defs hold what the visits of the files in `files` yield, and
\* nothing else
ExactlyTheVisitsOf(files) ==
    \E chosen \in [files -> UNION {visits[f] : f \in files}] :
        /\ \A f \in files : chosen[f] \in visits[f] /\ chosen[f].exc = "none"
        /\ defs = UNION {chosen[f].defined_classes : f \in files}
        /\ refs = UNION {chosen[f].ref_classes : f \in files}

\* C21: with ignore_init_files set (the default) a file whose basename is
\* __init__.py is never visited, in sequential and in concurrent mode: no
\* task is submitted for it, none of its classes is in the definitions and
\* it adds no reference, while every other input file is visited; with the
\* option off such a file is visited like any other.
InitFilesAreSkipped ==
    /\ \A i \in 1..Len(futures) : futures[i].path \in ToVisit
    /\ (call.fn = "root_finders" /\ call.ignore_init_files)
           => \A d \in defs : d.path[Len(d.path)] # "__init__.py"
    /\ (call.fn = "root_finders" /\ HasReturned)
           => /\ ExactlyTheVisitsOf(ToVisit)
              /\ call.multiprocessing.enabled
                     => {futures[i].path : i \in 1..Len(futures)} = ToVisit

\* root_finders returned for a directory that holds an __init__.py, the
\* option set: the classes of the other files are defined, Beta of
\* __init__.py is not
InitFilesAreSkipped_Witness ==
    /\ HasReturned
    /\ call.fn = "root_finders"
    /\ call.ignore_init_files
    /\ FInit \in Range(paths)
    /\ Len(paths) >= 2
    /\ \E d \in defs : d.path = F1
    /\ \A d \in defs : d.path # FInit

\* C22: the library keeps no state between calls: a call returns what the
\* same call returns as the first call of a new process on the same disk,
\* whatever calls the process made before, also while a file the call looks
\* into had another content.
FreshProcessReturnsTheSame ==
    (HasReturned /\ prev.restarted /\ prev.outcome.kind = "return")
        => outcome.ret = prev.outcome.ret

\* the open classes after k events as a stack, the innermost first
OpenStack(content, k) ==
    LET open == OpenClasses(content, k)
    IN  [m \in 1..Cardinality(open) |->
            content[CHOOSE i \in open : Cardinality({j \in open : j > i}) = m - 1]]

\* the top-level classes among the first k events
TopLevelClasses(content, k) ==
    {i \in 1..k : content[i].k = "ClassDef" /\ OpenClasses(content, i - 1) = {}}

\* the visitor after the first k events of the traversal of the source
VisitPrefix(source, k, hash) ==
    VisitAll(_XSDataRootFinderVisitor(call.xsd_models, PathOf(source)),
             SubSeq(ContentOf(source), 1, k), hash)

\* root_finder has ended, for code or for a file
VisitEnded == pc = "done" /\ call.fn = "root_finder"

\* what C23 says of the visitor v that has met the first k events
NestingAt(source, content, k, v) ==
    /\ v.class_trace = OpenStack(content, k)
    /\ v.defined_classes =
           {RootModelOf(source, content[i]) : i \in TopLevelClasses(content, k)}
    /\ (k < Len(content) /\ content[k + 1].k = "leave_ClassDef")
           => v.class_trace # << >>
    /\ k = Len(content) => v.class_trace = << >>

\* C23: during the visit of a syntax tree the nesting stack holds exactly
\* the classes that are open, the innermost first: entering a class pushes
\* it at any depth, leaving pops it, no pop meets an empty stack and the
\* stack is empty when the visit ends.  A RootModel is recorded for a class
\* exactly when the stack was empty as the class was entered, so a nested
\* class is no definition and is in no result.
NestingStack ==
    VisitEnded =>
        LET content == ContentOf(call.source)
        IN  /\ \A hash \in Iterations(SourceStars(call.source)) :
                   \A k \in 0..Len(content) :
                       VisitPrefix(call.source, k, hash).exc = "none"
                           => NestingAt(call.source, content, k,
                                        VisitPrefix(call.source, k, hash))
            /\ HasReturned =>
                   \A n \in 1..Len(outcome.ret.list) :
                       \E i \in TopLevelClasses(content, Len(content)) :
                           outcome.ret.list[n] = RootModelOf(call.source, content[i])

\* root_finder returned for the code with classes nested two deep: three
\* classes were open at once, Holder and Beta are the roots, the nested
\* Alpha and Widget are not
NestingStack_Witness ==
    /\ HasReturned
    /\ call.fn = "root_finder"
    /\ call.source = CodeSource(NestedFile)
    /\ \E k \in 1..Len(NestedFile) :
          Len(VisitPrefix(call.source, k, << >>).class_trace) = 3
    /\ HasRootNamed("Holder") /\ HasRootNamed("Beta")
    /\ ~HasRootNamed("Alpha") /\ ~HasRootNamed("Widget")

\* the innermost class open after k events is a relevant model, by the
\* imports registered so far
InRelevantModel(content, k, v) ==
    /\ OpenClasses(content, k) # {}
    /\ run_model_check(v.imports, v.import_stars, v.xsd_models,
                       OpenStack(content, k)[1]).val

\* the names a reference written as `name` may carry: the name, or the
\* name the alias was imported for
NameOrImported(v, name) ==
    {name} \cup (IF name \in DOMAIN v.imports THEN {v.imports[name].value} ELSE {})

\* what C24 says of an annotated assignment met by the visitor v, after
\* k events, that leaves the visitor w
AnnotationGatedAt(content, k, v, w) ==
    LET names == Range(AnnotationNames(content[k + 1].annotation))
    IN  /\ w.class_trace = v.class_trace
        /\ w.defined_classes = v.defined_classes
        /\ v.ref_classes \subseteq w.ref_classes
        /\ IF InRelevantModel(content, k, v)
           THEN /\ \A name \in names :
                       \E r \in w.ref_classes : r.name \in NameOrImported(v, name)
                /\ \A r \in w.ref_classes \ v.ref_classes :
                       \E name \in names : r.name \in NameOrImported(v, name)
           ELSE w.ref_classes = v.ref_classes

\* C24: an annotated assignment adds references exactly when the nesting
\* stack is not empty and the innermost open class is a relevant model: an
\* annotation at module level, or in a class that is no model, adds
\* nothing, whatever encloses that class, and an annotation in a model
\* nested in a class that is no model adds the names it writes.  The stack
\* is the same after the check as before.
AnnotationsAreGated ==
    VisitEnded =>
        LET content == ContentOf(call.source)
        IN  \A hash \in Iterations(SourceStars(call.source)) :
                \A k \in 0..(Len(content) - 1) :
                    (/\ content[k + 1].k = "AnnAssign"
                     /\ VisitPrefix(call.source, k + 1, hash).exc = "none")
                        => AnnotationGatedAt(content, k,
                               VisitPrefix(call.source, k, hash),
                               VisitPrefix(call.source, k + 1, hash))

\* root_finder returned for the code with nested classes: the field of
\* Holder and the field of the model Widget inside the plain class Alpha
\* are references, the field of Alpha and the annotation at module level
\* are not
AnnotationsAreGated_Witness ==
    /\ HasReturned
    /\ call.fn = "root_finder"
    /\ call.source = CodeSource(NestedFile)
    /\ LET v == VisitPrefix(call.source, Len(NestedFile), << >>)
       IN  {r.name : r \in v.ref_classes} = {<<"Widget">>, <<"Alpha">>, <<"str">>}

\* the file beside f that holds the module m
ModuleFile(f, m) == [f EXCEPT ![Len(f)] = m \o ".py"]

\* the file has `import m` and, after it, a field annotated m.type or a
\* class with the base m.type
WritesQualified(content, m, type) ==
    \E i, j \in 1..Len(content) :
        /\ i < j
        /\ content[i] = Import(<<ImportAlias(Name(m), NoNode)>>)
        /\ \/ content[j] = AnnAssign(Attribute(Name(m), type))
           \/ /\ content[j].k = "ClassDef"
              /\ Attribute(Name(m), type) \in Range(content[j].bases)

\* file f refers to the class `type` of the file g beside it as m.type,
\* through `import m`
RefersQualified(f, g, m, type) ==
    /\ f \in DOMAIN fs /\ g \in DOMAIN fs
    /\ g = ModuleFile(f, m)
    /\ Parses(fs[f]) /\ Parses(fs[g])
    /\ WritesQualified(fs[f], m, type)
    /\ ModuleHasClassUncached(g, <<type>>).val

\* C25: a reference written m.Type, in a field annotation or in a list of
\* base classes, where m is imported and its file declares Type, gets the key
\* (file of m, Type): root_finder on the referring file returns with that
\* key among the references, and root_finders over both files returns
\* without Type of m among the roots.
QualifiedNameResolves ==
    \A f \in {F2, F3}, type \in ClassNames :
        RefersQualified(f, F1, "file1", type) =>
            /\ (pc = "done" /\ call.fn = "root_finder" /\ call.source = PathSource(f))
                   => /\ outcome.kind = "return"
                      /\ _ReferencedClass(F1, <<type>>) \in refs
            /\ (pc = "done" /\ call.fn = "root_finders" /\ {f, F1} \subseteq Visited)
                   => /\ outcome.kind = "return"
                      /\ ~HasRoot(F1, type)

\* C26: under the conventions that go by a decorator, a class whose
\* decorator is written module-qualified, after the import of the module
\* (import dataclasses and @dataclasses.dataclass, import attr and @attr.s),
\* is a relevant model as with the decorator imported by name: the field of
\* Holder is a reference to Widget, and Widget is no root.
QualifiedDecoratorIsRelevant ==
    \A x \in {"dataclass", "attrs"} :
        (/\ pc = "done"
         /\ call.fn = "root_finder"
         /\ call.source = CodeSource(QualifiedMarkerFile(x))
         /\ call.xsd_models = x)
            => /\ outcome.kind = "return"
               /\ _ReferencedClass(None, <<"Widget">>) \in refs
               /\ ~HasRootNamed("Widget")

\* the names the visitor v, having met j - 1 events, takes from event j: the
\* base classes of a top-level class, the names of an annotation in a
\* relevant model
NamesTakenAt(content, j, v) ==
    IF content[j].k = "ClassDef" /\ OpenClasses(content, j - 1) = {}
    THEN {module(_parse_imported_module(b).val) :
            b \in {c \in Range(content[j].bases) : IsModuleNode(c)}}
    ELSE IF content[j].k = "AnnAssign" /\ InRelevantModel(content, j - 1, v)
    THEN Range(AnnotationNames(content[j].annotation))
    ELSE {}

\* no import matches the name: no registered alias is a prefix of it and
\* there is no star import
NoImportMatches(v, name) ==
    /\ v.import_stars = {}
    /\ find_common_import(v.imports, from_levels(_decompose_module(name))) = None

\* no candidate file can verify: every file of the disk parses and none
\* declares a class of the name, or of the name an alias was imported for
NoFileDeclares(v, name) ==
    \A g \in DOMAIN fs :
        /\ Parses(fs[g])
        /\ \A n \in NameOrImported(v, name) :
               ~ModuleHasClassUncached(g, <<n[Len(n)]>>).val

\* C27: a name that cannot be resolved to a defining file is no error: for
\* every name taken from a field annotation or a list of base classes, simple
\* or dotted, that no import matches or that no file declares, the visit
\* goes on without raising and the key (visited file, name) is among the
\* references.  (Stated for the disks as they were at the first call.)
UnresolvedNameIsNoError ==
    (/\ VisitEnded
     /\ is_file(call.source)
     /\ call.xsd_models \in XsdModels
     /\ fs \in FileSystems \cup ResolutionFileSystems)
        => LET content == ContentOf(call.source)
           IN  \A hash \in Iterations(SourceStars(call.source)) :
                   \A j \in 1..Len(content) :
                       LET v == VisitPrefix(call.source, j - 1, hash)
                           w == VisitPrefix(call.source, j, hash)
                       IN  v.exc = "none" =>
                               \A name \in NamesTakenAt(content, j, v) :
                                   (NoImportMatches(v, name) \/ NoFileDeclares(v, name))
                                       => /\ w.exc = "none"
                                          /\ _ReferencedClass(v.path, name)
                                                 \in w.ref_classes

\* C28: resolution is verified, not assumed: when root_finder has visited a
\* file, every reference whose file is another file than the visited one,
\* which only import resolution yields, names a file that declares a class
\* of the reference's name.
ResolutionIsVerified ==
    (/\ call.fn = "root_finder"
     /\ is_file(call.source)
     /\ pc = "find" \/ HasReturned)
        => \A r \in refs :
               r.path # call.source.path
                   => /\ r.path \in DOMAIN fs
                      /\ Parses(fs[r.path])
                      /\ ModuleHasClassUncached(r.path, r.name).val

\* what C29 says of event j, met by the visitor v and leaving the visitor w:
\* only an import statement changes the registry, and a simple name is keyed
\* by the registry as v holds it: with the visited file when nothing
\* registered matches, with the file the registered import resolves to
\* otherwise
RegistryAsItStandsAt(content, j, v, w) ==
    /\ content[j].k \notin {"Import", "ImportFrom"}
           => w.imports = v.imports /\ w.import_stars = v.import_stars
    /\ \A name \in {n \in NamesTakenAt(content, j, v) : Len(n) = 1} :
           /\ NoImportMatches(v, name)
                  => _ReferencedClass(v.path, name) \in w.ref_classes
           /\ (v.path # None /\ name \in DOMAIN v.imports)
                  => LET path_from_module == module_to_path(v.imports[name], v.path)
                     IN  (path_from_module.exc = "none" /\ path_from_module.val # None)
                             => _ReferencedClass(path_from_module.val,
                                                 v.imports[name].value)
                                    \in w.ref_classes

\* C29: a reference is resolved against the import registry as it stands
\* when the annotation or the list of base classes is visited, and only
\* import statements change the registry.  A name used before its import
\* statement gets the key of the visited file, so it does not suppress the
\* definition in the imported file: root_finders over file1.py and a file
\* that uses Widget only before importing it returns Widget of file1.py;
\* the same name used after the import gets the resolved key, and Widget of
\* file1.py is not returned.
RegistryInFileOrder ==
    /\ VisitEnded =>
           LET content == ContentOf(call.source)
           IN  \A hash \in Iterations(SourceStars(call.source)) :
                   \A j \in 1..Len(content) :
                       (/\ VisitPrefix(call.source, j - 1, hash).exc = "none"
                        /\ VisitPrefix(call.source, j, hash).exc = "none")
                           => RegistryAsItStandsAt(content, j,
                                  VisitPrefix(call.source, j - 1, hash),
                                  VisitPrefix(call.source, j, hash))
    /\ (HasReturned /\ call.fn = "root_finders" /\ fs[F1] = WidgetFile)
           => /\ (fs[F2] = LateImportFile /\ Visited = {F1, F2})
                     => HasRoot(F1, "Widget")
              /\ (fs[F3] = BeforeAndAfterFile /\ Visited = {F1, F3})
                     => ~HasRoot(F1, "Widget")

\* root_finder returned for the file that uses Widget in Holder, imports
\* it, and uses it in Beta: the first use is keyed by the file itself, the
\* second by file1.py
RegistryInFileOrder_Witness ==
    /\ HasReturned
    /\ call.fn = "root_finder"
    /\ call.source = PathSource(F3)
    /\ fs[F3] = BeforeAndAfterFile
    /\ refs = {_ReferencedClass(F3, <<"Widget">>), _ReferencedClass(F1, <<"Widget">>)}

\* the alias an entry of an import statement registers
AliasOf(import_alias) ==
    IF import_alias.asname.t # "None" THEN <<import_alias.asname.value>>
    ELSE <<import_alias.name.value>>

\* what C30 says of event j, met by the visitor v and leaving the visitor w:
\* after a from-import each alias stands for the name imported under it,
\* by the last entry that registers the alias; and a name that is a
\* registered alias whose import resolves is keyed by the resolved file and
\* the imported name, the alias itself being no part of the key
ImportedNameAt(content, j, v, w) ==
    /\ (content[j].k = "ImportFrom" /\ ~content[j].star) =>
           \A n \in 1..Len(content[j].names) :
               (\A l \in (n + 1)..Len(content[j].names) :
                    AliasOf(content[j].names[l]) # AliasOf(content[j].names[n]))
                   => /\ AliasOf(content[j].names[n]) \in DOMAIN w.imports
                      /\ w.imports[AliasOf(content[j].names[n])].value
                             = <<content[j].names[n].name.value>>
    /\ \A name \in {n \in NamesTakenAt(content, j, v) : Len(n) = 1} :
           (v.path # None /\ name \in DOMAIN v.imports)
               => LET path_from_module == module_to_path(v.imports[name], v.path)
                      imported == v.imports[name].value
                  IN  (path_from_module.exc = "none" /\ path_from_module.val # None)
                          => /\ w.ref_classes \ v.ref_classes \subseteq
                                    {_ReferencedClass(path_from_module.val, imported)}
                             /\ _ReferencedClass(path_from_module.val, imported)
                                    \in w.ref_classes

\* C30: a class imported under an alias (from m import Widget as W) and
\* referenced as W is keyed (file of m, Widget), by the name it is defined
\* under and not by the alias, so root_finders over both files does not
\* return Widget of m; when an alias is registered twice in a file, the
\* later import stands for the alias in every reference visited after it
\* (W is Widget for Holder and Alpha for Beta: neither Widget nor Alpha of
\* file1.py is returned).
AliasKeysTheImportedName ==
    /\ VisitEnded =>
           LET content == ContentOf(call.source)
           IN  \A hash \in Iterations(SourceStars(call.source)) :
                   \A j \in 1..Len(content) :
                       (/\ VisitPrefix(call.source, j - 1, hash).exc = "none"
                        /\ VisitPrefix(call.source, j, hash).exc = "none")
                           => ImportedNameAt(content, j,
                                  VisitPrefix(call.source, j - 1, hash),
                                  VisitPrefix(call.source, j, hash))
    /\ (HasReturned /\ call.fn = "root_finders" /\ fs[F1] = WidgetFile
            /\ Visited = {F1, F3})
           => /\ fs[F3] = AliasFile
                     => ~HasRoot(F1, "Widget") /\ HasRoot(F1, "Alpha")
              /\ fs[F3] = TwiceAliasFile
                     => ~HasRoot(F1, "Widget") /\ ~HasRoot(F1, "Alpha")

\* root_finders returned for file1.py and the file that imports Widget as W
\* and then Alpha as W: Holder and Beta of that file are the roots
AliasKeysTheImportedName_Witness ==
    /\ HasReturned
    /\ call.fn = "root_finders"
    /\ fs[F1] = WidgetFile /\ fs[F3] = TwiceAliasFile
    /\ Visited = {F1, F3}
    /\ refs = {_ReferencedClass(F1, <<"Widget">>), _ReferencedClass(F1, <<"Alpha">>),
               _ReferencedClass(F1, <<"str">>)}
    /\ HasRoot(F3, "Holder") /\ HasRoot(F3, "Beta")
    /\ Len(outcome.ret.list) = 2

====
